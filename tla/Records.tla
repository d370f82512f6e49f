------------------------------- MODULE Records -------------------------------
(***************************************************************************)
(* All tasks of the workspace and the records that could not be read: what *)
(* storage.ts makes of stored or imported data (validateJob, restoreJob,   *)
(* restoreJobs, migrations.ts), and the operations of workspace.ts that    *)
(* create, delete, back up and import, with the drafts that memoryEdits.ts *)
(* puts into a backup.                                                     *)
(*                                                                         *)
(* Every operation loads the workspace anew and stores it whole, under one *)
(* lock: one step.  Copies that are behind are the matter of Workspace.    *)
(***************************************************************************)
EXTENDS Glossary

CONSTANTS
    Limit,    \* tasks and records a workspace may hold
    Seeds,    \* the terms a task is created with, or had before terms had names
    MaxTerms, \* bound on the terms of a task
    MaxDrafts,\* bound on the drafts of the tab
    MaxMade,  \* bound on the names made by localID
    MaxSteps  \* bound on the operations

ASSUME RecordsAssumption ==
    /\ Limit \in Nat \ {0} /\ MaxTerms \in Nat /\ MaxDrafts \in Nat /\ MaxMade \in Nat
    /\ MaxSteps \in Nat
    /\ Seeds \subseteq Seq([source : Source, target : Target])

VARIABLES
    version,  \* format of what is stored
    jobs,     \* the stored tasks, as they are written
    recovery, \* the stored records
    drafts,   \* edits of terms in one tab, not saved
    file,     \* a backup on disk
    made,     \* names made so far
    steps,    \* operations so far
    owned,    \* history: contents the user has and did not delete
    told      \* history: which content a record's name was shown for

stored == <<version, jobs, recovery>>
vars == <<stored, drafts, file, made, steps, owned, told>>

Local(n) == ID("local", n)

\* What may stand for a task: written by this version, by the first one ("old"),
\* or a draft in the place of one.  Its history ("log") or its essence ("text")
\* may be damaged.
Raw(id, content, form, hurt, terms) ==
    [id |-> id, content |-> content, form |-> form, hurt |-> hurt, terms |-> terms]
Record(id, data) == [id |-> id, data |-> data]

Ids(s) == {r.id : r \in ToSet(s)}
Contents(js, rs) == {j.content : j \in ToSet(js)} \cup {r.data.content : r \in ToSet(rs)}

-----------------------------------------------------------------------------
(* Reading.                                                                *)

\* migrateJob, restoreJob and validateJob: history is repaired, the rest is strict.
Readable(raw, v) ==
    /\ raw.id # NoID
    /\ raw.form = "new" \/ (raw.form = "old" /\ v = 1)
    /\ raw.hurt # "text"
    /\ TermsValid(raw.terms)
Restored(raw) == [raw EXCEPT !.form = "new", !.hurt = "no", !.terms = Identified(@)]

\* Fault: names of records are not compared.
QuarantineNamed(rs, id, raw) ==
    Append(rs, Record(IF id = NoID THEN ID("recovery", Len(rs)) ELSE id, raw))

Quarantine(rs, id, raw) ==
    Append(rs, Record(FreeID(IF id = NoID THEN ID("recovery", Len(rs)) ELSE id, Ids(rs)), raw))

\* restoreJobs: what cannot be read, or has the name of a task before it, is a record.
Nothing == [jobs |-> <<>>, recovery |-> <<>>]
Take(w, raw, v) ==
    IF Readable(raw, v) /\ raw.id \notin Ids(w.jobs)
    THEN [jobs |-> Append(w.jobs, Restored(raw)), recovery |-> w.recovery]
    ELSE [jobs |-> w.jobs, recovery |-> Quarantine(w.recovery, NoID, raw)]
Taken(js, v) ==
    LET taken[i \in 0 .. Len(js)] == IF i = 0 THEN Nothing ELSE Take(taken[i - 1], js[i], v)
    IN  taken[Len(js)]
Again(w, r) == [jobs |-> w.jobs, recovery |-> Quarantine(w.recovery, r.id, r.data)]
RestoreJobs(js, v, rs) ==
    LET again[i \in 0 .. Len(rs)] == IF i = 0 THEN Taken(js, v) ELSE Again(again[i - 1], rs[i])
    IN  again[Len(rs)]

\* loadWorkspace, parseBackup
Loaded == RestoreJobs(jobs, version, recovery)
Parsed(f) == RestoreJobs(f.jobs, 3, f.recovery)
Held(w) == Len(w.jobs) + Len(w.recovery)

-----------------------------------------------------------------------------
(* Backups.  One file is made, and may be imported as often as one likes.   *)

DraftRecord(d, n) ==
    Record(ID("draft", n), Raw(d.job, <<d.term, d.text, d.value>>, "draft", "no", <<>>))

\* Fault: a draft is put into its task unchecked.
PutBlind(w, d) ==
    IF d.job = w.job.id /\ HasField(w.job.terms, d)
    THEN [w EXCEPT !.job.terms = Edited(@, d, d.value)] ELSE w

\* snapshot: a draft is in its task, or in a record if that would not be valid.
Put(w, d) ==
    IF d.job # w.job.id THEN w
    ELSE IF /\ HasField(w.job.terms, d)
            /\ MayEdit(w.job.terms, d, d.value, MemoryValue(w.job.terms, d))
    THEN [w EXCEPT !.job.terms = Edited(@, d, d.value)]
    ELSE [w EXCEPT !.recovery = Append(@, DraftRecord(d, Len(@)))]
WithDrafts(job, rs) ==
    LET put[i \in 0 .. Len(drafts)] ==
            IF i = 0 THEN [job |-> job, recovery |-> rs] ELSE Put(put[i - 1], drafts[i])
    IN  put[Len(drafts)]
Add(w, job) ==
    LET copy == WithDrafts(job, w.recovery)
    IN  [jobs |-> Append(w.jobs, copy.job), recovery |-> copy.recovery]
Snapshot(js) ==
    LET added[i \in 0 .. Len(js)] == IF i = 0 THEN Nothing ELSE Add(added[i - 1], js[i])
    IN  added[Len(js)]

\* exportBackup and makeBackup, of everything or of some tasks.
Backup(js, rs) ==
    LET s == Snapshot(js) IN [jobs |-> s.jobs, recovery |-> rs \o s.recovery]

-----------------------------------------------------------------------------
(* Steps.                                                                  *)

\* parseSeedTerms
Distinct(seed) == \A i, k \in DOMAIN seed : seed[i].source = seed[k].source => i = k

\* A workspace of some version, whose tasks may be damaged or share a name, with or
\* without a record that an earlier load has named.
Init ==
    /\ version \in {1, 3}
    /\ recovery \in {<<>>} \cup
          IF version = 1 THEN {}
          ELSE {<<Record(ID("recovery", 0), Raw(NoID, <<0>>, "new", "text", <<>>))>>}
    /\ \E n \in 0 .. Limit - Len(recovery), seed \in {s \in Seeds : Distinct(s)} :
       \E name \in [1 .. n -> 1 .. n], hurt \in [1 .. n -> {"no", "log", "text"}] :
          /\ \A i \in 1 .. n : name[i] <= i
          /\ jobs = [i \in 1 .. n |->
                       Raw(Local(name[i]), <<i>>, IF version = 1 THEN "old" ELSE "new", hurt[i],
                           [k \in DOMAIN seed |->
                               Term(NoID, seed[k].source, seed[k].target, FALSE)])]
    /\ drafts = <<>> /\ file = Nothing
    /\ made = Limit /\ steps = 0 /\ owned = Contents(jobs, recovery)
    /\ told = {<<r.id, r.data.content>> : r \in ToSet(Loaded.recovery)}

Write(js, rs) == version' = 3 /\ jobs' = js /\ recovery' = rs

\* One task of the workspace gets other terms.
WriteTerms(id, terms) ==
    Write([i \in DOMAIN Loaded.jobs |->
              IF Loaded.jobs[i].id = id THEN [Loaded.jobs[i] EXCEPT !.terms = terms]
              ELSE Loaded.jobs[i]],
          Loaded.recovery)

CreateJob(seed) ==
    /\ Held(Loaded) < Limit
    /\ made + 1 + Len(seed) <= MaxMade
    /\ Distinct(seed)
    /\ made' = made + 1 + Len(seed)
    /\ LET terms == [i \in DOMAIN seed |->
                        Term(Local(made + 1 + i), seed[i].source, seed[i].target, TRUE)]
       IN  Write(<<Raw(Local(made + 1), <<made + 1>>, "new", "no", terms)>> \o Loaded.jobs,
                 Loaded.recovery)
    /\ owned' = owned \cup {<<made + 1>>}
    /\ UNCHANGED <<drafts, file>>

\* deleteJob; the editor forgets the task's drafts (retain).
DeleteJob(id) ==
    /\ Write(Only(Loaded.jobs, {j \in ToSet(Loaded.jobs) : j.id # id}), Loaded.recovery)
    /\ drafts' = Only(drafts, {d \in ToSet(drafts) : d.job # id})
    /\ owned' = owned \ {j.content : j \in {k \in ToSet(Loaded.jobs) : k.id = id}}
    /\ UNCHANGED <<file, made>>

\* deleteRecovery, of a record as it was shown to the user at any time.
DeleteRecovery(shown) ==
    /\ Write(Loaded.jobs, Only(Loaded.recovery, {r \in ToSet(Loaded.recovery) : r.id # shown[1]}))
    /\ owned' = owned \ {shown[2]}
    /\ UNCHANGED <<drafts, file, made>>

ExportBackup ==
    /\ file = Nothing
    /\ \/ file' = Backup(Loaded.jobs, Loaded.recovery)
       \/ \E j \in ToSet(Loaded.jobs) : file' = Backup(<<j>>, <<>>)
    /\ UNCHANGED <<stored, drafts, made, owned>>

\* exportRecovery; the user may repair the file by hand.
ExportRecovery(r, repaired) ==
    /\ file = Nothing
    /\ file' = [jobs |-> <<IF repaired THEN [r.data EXCEPT !.hurt = "no"] ELSE r.data>>,
                recovery |-> <<>>]
    /\ UNCHANGED <<stored, drafts, made, owned>>

\* Fault: the names in the file are kept.
ImportNamed ==
    LET new == Parsed(file) IN
    /\ Held(Loaded) + Held(new) <= Limit
    /\ Write(new.jobs \o Loaded.jobs, Loaded.recovery \o new.recovery)
    /\ owned' = owned \cup Contents(new.jobs, new.recovery)
    /\ UNCHANGED <<drafts, file, made>>

\* importBackup: a task whose name is taken becomes a copy, a record always does.
Copy(js, j) ==
    Append(js, IF j.id \in Ids(Loaded.jobs) \cup Ids(js)
               THEN [j EXCEPT !.id = Local(made + 1 + Len(js))] ELSE j)
Copied(js) ==
    LET copied[i \in 0 .. Len(js)] == IF i = 0 THEN <<>> ELSE Copy(copied[i - 1], js[i])
    IN  copied[Len(js)]
ImportBackup ==
    LET new == Parsed(file)
        tasks == Copied(new.jobs)
        records == [i \in DOMAIN new.recovery |->
                       Record(Local(made + Len(tasks) + i), new.recovery[i].data)]
    IN  /\ Held(Loaded) + Held(new) <= Limit
        /\ made + Held(new) <= MaxMade /\ made' = made + Held(new)
        /\ Write(tasks \o Loaded.jobs, Loaded.recovery \o records)
        /\ owned' = owned \cup Contents(new.jobs, new.recovery)
        /\ UNCHANGED <<drafts, file>>

\* The runner commits a block of task j, with what an answer made of its terms.
LearnTerms(j, terms) ==
    /\ TermsValid(terms) /\ Len(terms) <= MaxTerms
    /\ WriteTerms(j.id, Identified(terms))
    /\ UNCHANGED <<drafts, file, made, owned>>

AddTerm(j, source, target) ==
    /\ source \notin Sources(j.terms)
    /\ Len(j.terms) < MaxTerms /\ made < MaxMade
    /\ made' = made + 1
    /\ WriteTerms(j.id, Append(j.terms, Term(Local(made'), source, target, TRUE)))
    /\ UNCHANGED <<drafts, file, owned>>

RemoveTerm(j, id) ==
    /\ WriteTerms(j.id, Only(j.terms, {t \in ToSet(j.terms) : t.id # id}))
    /\ UNCHANGED <<drafts, file, made, owned>>

\* Input that is not saved yet, perhaps because it cannot be.
TypeDraft(j, f, value) ==
    /\ Len(drafts) < MaxDrafts
    /\ \A d \in ToSet(drafts) : <<d.job, d.term, d.text>> # <<j.id, f.term, f.text>>
    /\ drafts' = Append(drafts, [job |-> j.id, term |-> f.term, text |-> f.text, value |-> value,
                                 previous |-> MemoryValue(j.terms, f)])
    /\ UNCHANGED <<stored, file, made, owned>>

Without(d) == Only(drafts, ToSet(drafts) \ {d})

SaveDraft(j, d) ==
    /\ d.job = j.id /\ MayEdit(j.terms, d, d.value, d.previous)
    /\ WriteTerms(j.id, Edited(j.terms, d, d.value))
    /\ drafts' = Without(d)
    /\ UNCHANGED <<file, made, owned>>

KeepMine(j, d) ==
    /\ d.job = j.id /\ HasField(j.terms, d)
    /\ drafts' = [i \in DOMAIN drafts |->
                     IF drafts[i] = d THEN [d EXCEPT !.previous = MemoryValue(j.terms, d)]
                     ELSE drafts[i]]
    /\ UNCHANGED <<stored, file, made, owned>>

\* restore
DropDraft(d) == drafts' = Without(d) /\ UNCHANGED <<stored, file, made, owned>>

-----------------------------------------------------------------------------
EditTerms(j) ==
    \/ \E terms \in Answered(j.terms) : LearnTerms(j, terms)
    \/ \E source \in Source, target \in Target : AddTerm(j, source, target)
    \/ \E t \in ToSet(j.terms) :
          \/ RemoveTerm(j, t.id)
          \/ \E value \in Source \cup {Blank} : TypeDraft(j, [term |-> t.id, text |-> "source"], value)
          \/ \E value \in Target \cup {Blank} : TypeDraft(j, [term |-> t.id, text |-> "target"], value)
    \/ \E d \in ToSet(drafts) : SaveDraft(j, d) \/ KeepMine(j, d)

Manage ==
    \/ \E seed \in Seeds : CreateJob(seed)
    \/ \E j \in ToSet(Loaded.jobs) : DeleteJob(j.id)
    \/ \E shown \in told : DeleteRecovery(shown)
    \/ \E r \in ToSet(Loaded.recovery), repaired \in BOOLEAN : ExportRecovery(r, repaired)
    \/ ExportBackup \/ ImportBackup
    \/ \E d \in ToSet(drafts) : DropDraft(d)

\* Every tab shows the records it reads.
Next ==
    /\ steps < MaxSteps /\ steps' = steps + 1
    /\ Manage \/ \E j \in ToSet(Loaded.jobs) : EditTerms(j)
    /\ told' = told \cup {<<r.id, r.data.content>> : r \in ToSet(Loaded'.recovery)}
Spec == Init /\ [][Next]_vars

-----------------------------------------------------------------------------
(* Safety.                                                                 *)

\* What is written is read back as it is: no name, no term and no number of tasks
\* that an operation leaves behind is refused or altered by the next load.
ReadsBack ==
    [][stored' # stored => /\ Loaded' = [jobs |-> jobs', recovery |-> recovery']
                           /\ Held(Loaded') <= Limit]_vars

\* What the user has and did not delete is a task or a record that can be
\* downloaded, whatever was damaged, sharing a name or imported; and the record
\* deleted is the one that was shown, for no name is given twice.
NothingLost ==
    /\ owned \subseteq Contents(Loaded.jobs, Loaded.recovery)
    /\ \A a, b \in told : a[1] = b[1] => a = b

\* A backup holds every task in full and every record, and every draft of a task
\* that is there, in its place or in a record that keeps it from making the task
\* unreadable.  Unless there are such drafts, an empty workspace has room for it.
BackupComplete ==
    LET back == Parsed(Backup(Loaded.jobs, Loaded.recovery))
    IN  /\ [i \in DOMAIN back.jobs |-> [back.jobs[i] EXCEPT !.terms = <<>>]]
             = [i \in DOMAIN Loaded.jobs |-> [Loaded.jobs[i] EXCEPT !.terms = <<>>]]
        /\ ToSet(Loaded.recovery) \subseteq ToSet(back.recovery)
        /\ \A d \in ToSet(drafts) :
              \/ \E j \in ToSet(back.jobs) :
                    j.id = d.job /\ HasField(j.terms, d) /\ MemoryValue(j.terms, d) = d.value
              \/ \E r \in ToSet(back.recovery) : r.data.content = <<d.term, d.text, d.value>>
        /\ Snapshot(Loaded.jobs).recovery = <<>> => Held(back) <= Limit

\* An answer that was paid for can always be stored, whatever terms it brings:
\* the task's terms stand, each of them once.
LearnStorable ==
    \A j \in ToSet(Loaded.jobs), reply \in Reply, now \in SUBSET Source :
        LET terms == Learned(j.terms, reply, now)
        IN  TermsValid(terms) /\ SubSeq(terms, 1, Len(j.terms)) = j.terms

\* A term left out of a request was not crowded out by one that matters less.
SentFirst ==
    \A j \in ToSet(Loaded.jobs), now \in SUBSET Source : \A near \in SUBSET (Source \ now) :
        LET sent == Selected(j.terms, now, near)
        IN  /\ Spent(sent) <= Budget
            /\ \A t \in ToSet(Found(j.terms, now, near)) \ ToSet(sent) :
                  LET before == {u \in ToSet(sent) : Priority(u, now) <= Priority(t, now)}
                  IN  Cost(t) + Spent(Only(sent, before)) > Budget

=============================================================================
