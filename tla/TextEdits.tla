----------------------------- MODULE TextEdits -----------------------------
(***************************************************************************)
(* The editor of one text field in one tab: useTextEdits of                *)
(* src/web/src/textEdits.ts, which translationEdits.ts and memoryEdits.ts  *)
(* instantiate.  Input is saved half a second after the last keystroke and *)
(* when the field loses the focus, one save at a time, while the user goes *)
(* on typing, perhaps with an input method (composition).                  *)
(*                                                                         *)
(* hooks.save is the compare-and-set of applyTranslationEdit and           *)
(* applyMemoryEdit; it takes a while, and other tabs write the field too.  *)
(***************************************************************************)
EXTENDS Integers

CONSTANTS
    Input,      \* what may be typed
    Norm,       \* Norm[i]: hooks.normalize(i); None when it throws
    None,       \* no draft, no text
    MaxKeys,    \* bound on the keystrokes
    MaxOthers,  \* bound on the writes of the other tabs
    Faults      \* whether a save may fail for want of space

Text == {Norm[i] : i \in Input} \ {None}

Draft == [value : Input, previous : Text, savedInput : Input,
          focused : BOOLEAN, composing : BOOLEAN, error : BOOLEAN]
\* own: the draft it works for is still drafts[id]
Save == [input : Input, previous : Text, own : BOOLEAN]

ASSUME TextEditsAssumption ==
    /\ Norm \in [Input -> Input \cup {None}]
    \* normalizing twice changes nothing more
    /\ \A i \in Input : Norm[i] # None => Norm[Norm[i]] = Norm[i]
    /\ None \notin Input \cup Draft \cup Save
    /\ MaxKeys \in Nat /\ MaxOthers \in Nat
    /\ Faults \in BOOLEAN

VARIABLES
    stored,     \* the field in localStorage, None when its task is deleted
    shown,      \* the field in this tab's memory (hooks.read)
    draft,      \* drafts[id]
    timer,      \* the autosave timer is running
    pending,    \* the save under way (pending), None without one
    keys,       \* keystrokes so far
    writes,     \* writes of the other tabs so far
    typed,      \* history: the last input that has not been given up
    known,      \* history: texts the user has had in this editor
    foreign     \* history: another tab wrote since the last input was stored

vars == <<stored, shown, draft, timer, pending, keys, writes, typed, known, foreign>>

TypeOK ==
    /\ stored \in Text \cup {None} /\ shown \in Text \cup {None}
    /\ draft \in Draft \cup {None}
    /\ timer \in BOOLEAN
    /\ pending \in Save \cup {None}
    /\ pending # None => (pending.own <=> draft # None)
    /\ keys \in 0 .. MaxKeys /\ writes \in 0 .. MaxOthers
    /\ typed \in Input \cup {None}
    /\ known \subseteq Text
    /\ foreign \in BOOLEAN

Init ==
    /\ stored \in Text /\ shown = stored
    /\ draft = None /\ timer = FALSE /\ pending = None
    /\ keys = 0 /\ writes = 0
    /\ typed = None /\ known = {} /\ foreign = FALSE

-----------------------------------------------------------------------------
(* Helpers.                                                                *)

\* ensure: the draft there is, or a new one of the text in memory.
CanEdit == draft # None \/ shown # None
Ensured ==
    IF draft # None THEN draft
    ELSE [value |-> shown, previous |-> shown, savedInput |-> shown,
          focused |-> FALSE, composing |-> FALSE, error |-> FALSE]
Known == IF draft # None THEN known ELSE {shown}

Changed(d) == d.value # d.savedInput

\* Fault: a draft goes in the middle of a composition.
LoopDrops(d) ==
    IF Changed(d) /\ ~d.composing
    THEN IF Norm[d.value] = None
         THEN draft' = [d EXCEPT !.error = TRUE] /\ pending' = None
         ELSE /\ draft' = [d EXCEPT !.error = FALSE]
              /\ pending' = [input |-> d.value, previous |-> d.previous, own |-> TRUE]
    ELSE /\ draft' = IF d.focused THEN [d EXCEPT !.error = FALSE] ELSE None
         /\ pending' = None

\* Fault: every save compares with the text now in memory.
LoopRereads(d) ==
    IF Changed(d) /\ ~d.composing
    THEN IF Norm[d.value] = None
         THEN draft' = [d EXCEPT !.error = TRUE] /\ pending' = None
         ELSE /\ draft' = [d EXCEPT !.error = FALSE]
              /\ pending' = [input |-> d.value, own |-> TRUE,
                             previous |-> IF shown # None THEN shown ELSE d.previous]
    ELSE /\ draft' = IF d.focused \/ d.composing THEN [d EXCEPT !.error = FALSE] ELSE None
         /\ pending' = None

\* The loop of save() with the draft d: the next call of hooks.save, or the end;
\* a draft that is finished with goes.
Loop(d) ==
    IF Changed(d) /\ ~d.composing
    THEN IF Norm[d.value] = None
         THEN draft' = [d EXCEPT !.error = TRUE] /\ pending' = None
         ELSE /\ draft' = [d EXCEPT !.error = FALSE]
              /\ pending' = [input |-> d.value, previous |-> d.previous, own |-> TRUE]
    ELSE /\ draft' = IF d.focused \/ d.composing THEN [d EXCEPT !.error = FALSE] ELSE None
         /\ pending' = None

\* save(): the timer is cancelled; a save under way is joined, and nothing is
\* saved in the middle of a composition.
SaveNow(d) ==
    /\ timer' = FALSE
    /\ IF pending # None \/ d.composing THEN draft' = d /\ UNCHANGED pending ELSE Loop(d)

\* change(): the timer starts again, except during a composition.
Typed(d, v) ==
    /\ keys < MaxKeys /\ keys' = keys + 1
    /\ draft' = [d EXCEPT !.value = v, !.error = FALSE]
    /\ timer' = ~d.composing
    /\ typed' = v /\ known' = Known

Outside == UNCHANGED <<stored, shown, writes, foreign>>

-----------------------------------------------------------------------------
(* The user.                                                               *)

Begin ==
    /\ CanEdit
    /\ draft' = [Ensured EXCEPT !.focused = TRUE]
    /\ known' = Known
    /\ UNCHANGED <<timer, pending, keys, typed>> /\ Outside

Change(v) ==
    /\ CanEdit
    /\ Typed(Ensured, v)
    /\ UNCHANGED pending /\ Outside

StartComposition ==
    /\ CanEdit /\ keys < MaxKeys
    /\ draft' = [Ensured EXCEPT !.composing = TRUE]
    /\ timer' = FALSE
    /\ known' = Known
    /\ UNCHANGED <<pending, keys, typed>> /\ Outside

\* Fault: the composed text is taken over without the timer.
EndCompositionQuiet(v) ==
    /\ draft # None /\ draft.composing /\ keys < MaxKeys
    /\ draft' = [draft EXCEPT !.composing = FALSE, !.value = v, !.error = FALSE]
    /\ keys' = keys + 1 /\ typed' = v
    /\ UNCHANGED <<timer, pending, known>> /\ Outside

EndComposition(v) ==
    /\ draft # None /\ draft.composing
    /\ Typed([draft EXCEPT !.composing = FALSE], v)
    /\ UNCHANGED pending /\ Outside

\* An error stays where it is when the user leaves the field to look at it.
Blur ==
    /\ draft # None /\ draft.focused
    /\ LET d == [draft EXCEPT !.focused = FALSE, !.composing = FALSE] IN
       IF d.error THEN draft' = d /\ UNCHANGED <<timer, pending>> ELSE SaveNow(d)
    /\ UNCHANGED <<keys, typed, known>> /\ Outside

\* keepMine: the text of the other tab is taken note of and overwritten.
KeepMine ==
    /\ draft # None /\ pending = None
    /\ LET read == IF shown # None THEN shown ELSE draft.previous IN
       /\ SaveNow([draft EXCEPT !.previous = read])
       /\ known' = known \cup {read}
    /\ UNCHANGED <<keys, typed>> /\ Outside

\* restore: the input is given up.
Restore ==
    /\ draft # None /\ pending = None
    /\ draft' = None /\ timer' = FALSE
    /\ typed' = None
    /\ UNCHANGED <<pending, keys, known>> /\ Outside

-----------------------------------------------------------------------------
(* The timer, the save under way, and the other tabs.                      *)

\* Fault: nothing is saved while the field has the focus.
FireBlurred ==
    /\ timer /\ draft # None /\ ~draft.focused
    /\ SaveNow(draft)
    /\ UNCHANGED <<keys, typed, known>> /\ Outside

\* The draft may be gone when it fires.
Fire ==
    /\ timer
    /\ IF draft # None THEN SaveNow(draft) ELSE timer' = FALSE /\ UNCHANGED <<draft, pending>>
    /\ UNCHANGED <<keys, typed, known>> /\ Outside

\* flush before the task is started or exported: the same save.
Flush ==
    /\ draft # None
    /\ SaveNow(draft)
    /\ UNCHANGED <<keys, typed, known>> /\ Outside

Accepts(p) == stored # None /\ stored \in {p.previous, Norm[p.input]}

\* Fault: what was typed meanwhile counts as saved.
SaveDoneLatest ==
    /\ pending # None /\ Accepts(pending)
    /\ stored' = Norm[pending.input] /\ shown' = stored'
    /\ known' = known \cup {stored'}
    /\ foreign' = FALSE
    /\ IF pending.own
       THEN Loop([draft EXCEPT !.previous = Norm[pending.input], !.savedInput = draft.value])
       ELSE pending' = None /\ UNCHANGED draft
    /\ UNCHANGED <<timer, keys, writes, typed>>

\* The loop goes on with what was typed meanwhile.
SaveDone ==
    /\ pending # None /\ Accepts(pending)
    /\ stored' = Norm[pending.input] /\ shown' = stored'
    /\ known' = known \cup {stored'}
    /\ foreign' = FALSE
    /\ IF pending.own
       THEN Loop([draft EXCEPT !.previous = Norm[pending.input], !.savedInput = pending.input])
       ELSE pending' = None /\ UNCHANGED draft
    /\ UNCHANGED <<timer, keys, writes, typed>>

\* The tab refreshes, and the draft stays with its error.
SaveFails ==
    /\ pending # None /\ (Faults \/ ~Accepts(pending))
    /\ draft' = IF pending.own THEN [draft EXCEPT !.error = TRUE] ELSE draft
    /\ pending' = None
    /\ shown' = stored
    /\ UNCHANGED <<stored, timer, keys, writes, typed, known, foreign>>

OtherWrites(x) ==
    /\ stored # None /\ writes < MaxOthers
    /\ writes' = writes + 1
    /\ stored' = x /\ foreign' = TRUE
    /\ UNCHANGED <<shown, draft, timer, pending, keys, typed, known>>

\* The storage event; retain drops the draft of a task that has gone.
Refresh ==
    /\ shown' = stored
    /\ IF stored = None
       THEN /\ draft' = None /\ timer' = FALSE /\ typed' = None
            /\ pending' = IF pending # None THEN [pending EXCEPT !.own = FALSE] ELSE None
       ELSE UNCHANGED <<draft, timer, pending, typed>>
    /\ UNCHANGED <<stored, keys, writes, known, foreign>>

-----------------------------------------------------------------------------
Keyboard == Begin \/ StartComposition \/ \E v \in Input : Change(v) \/ EndComposition(v)
User == Keyboard \/ Blur \/ KeepMine \/ Restore
System == Fire \/ Flush \/ SaveDone \/ SaveFails \/ Refresh
Next == User \/ System \/ \E x \in Text \cup {None} : OtherWrites(x)

Spec == Init /\ [][Next]_vars

\* A timer fires and a save comes to an end; nothing is expected of the user.
FairSpec == Spec /\ WF_vars(Fire) /\ WF_vars(SaveDone \/ SaveFails)

-----------------------------------------------------------------------------
(* Safety.                                                                 *)

\* Types are right, and input that is not stored is never forgotten: a timer runs, a save is under
\* way, a composition is open, or the user sees an error.
InputOnItsWay ==
    /\ TypeOK
    /\ draft # None /\ Changed(draft) => timer \/ pending # None \/ draft.composing \/ draft.error

\* When a draft has been saved, what is stored is the last input and not one that
\* was overtaken while the save was under way, unless another tab wrote later.
LastInputStored ==
    (typed # None /\ ~foreign /\ stored # None /\ pending = None
        /\ (draft = None \/ ~Changed(draft)))
      => stored = Norm[typed]

\* A draft goes only when it is stored, or by the user's own act, or with its task.
DraftKept ==
    [][draft # None /\ draft' = None =>
           ~Changed(draft) \/ typed' = None \/ (pending # None /\ draft.value = pending.input)]_vars

\* A save replaces only a text the user had in this editor, or says the same.
KnownReplaced ==
    [][stored' # stored /\ writes' = writes => stored \in known]_vars

-----------------------------------------------------------------------------
(* Liveness.                                                               *)

\* Input left alone is stored in the end, or the user is told.
InputSettles ==
    (draft # None /\ Changed(draft) /\ ~draft.composing)
        ~> (draft = None \/ ~Changed(draft) \/ draft.composing \/ draft.error)

=============================================================================
