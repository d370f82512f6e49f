--------------------------- MODULE TextEditsProofs ---------------------------
(***************************************************************************)
(* Proofs about TextEdits: input is on its way, what is stored is the last *)
(* input, no draft is dropped and no unseen text replaced, for any inputs, *)
(* any normalization and any interleaving of typing, saves and other tabs. *)
(***************************************************************************)
EXTENDS TextEdits, TLAPS

-----------------------------------------------------------------------------
(* The inductive invariant.                                                *)

\* A save is under way only for text that normalizes.
Ready == pending # None => Norm[pending.input] # None

\* A save that has lost its draft works for a task that is gone.
Orphan == pending # None /\ ~pending.own => stored = None /\ shown = None

\* What a save will compare with is a text the user has had.
Seen ==
    /\ draft # None => draft.previous \in known
    /\ pending # None /\ pending.own => pending.previous \in known

\* A draft that differs from what was saved holds the last input, and so does the
\* draft a save is under way for.
Live == draft # None /\ (Changed(draft) \/ pending # None) => typed = draft.value

\* Without other tabs memory is up to date, and the text is that of the input
\* saved last.
Based ==
    ~foreign => /\ shown = stored
                /\ draft # None /\ stored # None => stored = Norm[draft.savedInput]

IInv == InputOnItsWay /\ Ready /\ Orphan /\ Seen /\ Live /\ Based /\ LastInputStored

-----------------------------------------------------------------------------
(* Drafts.                                                                 *)

\* Texts are inputs that normalize to themselves.
LEMMA TextFacts ==
    /\ Text \subseteq Input /\ None \notin Text
    /\ \A x \in Text : Norm[x] = x
    /\ \A i \in Input : Norm[i] # None => Norm[i] \in Text
BY TextEditsAssumption DEF Text

\* What ensure gives for a field that can be edited.
LEMMA EnsuredFacts ==
    ASSUME IInv, CanEdit
    PROVE  /\ Ensured \in Draft /\ Ensured.previous \in Known /\ Known \subseteq Text
           /\ draft # None => Ensured = draft /\ Known = known
           /\ draft = None => /\ ~Changed(Ensured) /\ Ensured.savedInput = shown
                              /\ ~Ensured.focused /\ ~Ensured.composing /\ ~Ensured.error
           /\ pending # None => draft # None /\ pending.own
<1> USE TextFacts, TextEditsAssumption
<1>1. CASE draft # None
  BY <1>1 DEF IInv, InputOnItsWay, TypeOK, Seen, Ensured, Known
<1>2. CASE draft = None
  <2>1. shown \in Text
    BY <1>2 DEF IInv, InputOnItsWay, TypeOK, CanEdit
  <2>2. pending = None
    BY <1>2, <2>1 DEF IInv, InputOnItsWay, TypeOK, Orphan
  <2> QED BY <1>2, <2>1, <2>2 DEF Ensured, Known, Draft, Changed
<1> QED BY <1>1, <1>2

\* e is the draft d, but perhaps for its error.
Same(d, e) ==
    /\ e \in Draft /\ e.value = d.value /\ e.previous = d.previous
    /\ e.savedInput = d.savedInput /\ e.focused = d.focused /\ e.composing = d.composing

\* What is left of the draft d, and the save that is begun for it.
Looped(d) ==
    /\ draft' # None => Same(d, draft')
    /\ draft' = None => pending' = None /\ ~Changed(d) /\ ~d.composing
    /\ pending' # None =>
          /\ pending' \in Save /\ pending'.own
          /\ pending'.input = d.value /\ pending'.previous = d.previous
          /\ Norm[d.value] # None /\ Changed(d)
    /\ draft' # None /\ Changed(d) => pending' # None \/ d.composing \/ draft'.error

\* What one turn of the loop of save() leaves behind.
LEMMA LoopFacts ==
    ASSUME NEW d \in Draft, Loop(d)
    PROVE  Looped(d)
<1> USE TextEditsAssumption
<1>0. \A e \in BOOLEAN : Same(d, [d EXCEPT !.error = e]) /\ [d EXCEPT !.error = e].error = e
  BY DEF Same, Draft
<1>1. CASE Changed(d) /\ ~d.composing /\ Norm[d.value] = None
  <2>1. draft' = [d EXCEPT !.error = TRUE] /\ pending' = None
    BY <1>1 DEF Loop
  <2> QED BY <1>0, <2>1 DEF Looped, Same
<1>2. CASE Changed(d) /\ ~d.composing /\ Norm[d.value] # None
  <2>1. /\ draft' = [d EXCEPT !.error = FALSE]
        /\ pending' = [input |-> d.value, previous |-> d.previous, own |-> TRUE]
    BY <1>2 DEF Loop
  <2>2. d.value \in Input /\ d.previous \in Text
    BY DEF Draft
  <2>3. pending' \in Save
    BY <2>1, <2>2 DEF Save
  <2> QED BY <1>0, <1>2, <2>1, <2>3 DEF Looped, Same
<1>3. CASE ~(Changed(d) /\ ~d.composing)
  <2>1. /\ draft' = IF d.focused \/ d.composing THEN [d EXCEPT !.error = FALSE] ELSE None
        /\ pending' = None
    BY <1>3 DEF Loop
  <2> QED BY <1>0, <1>3, <2>1 DEF Looped, Same
<1> QED BY <1>1, <1>2, <1>3

\* save() for the draft there is, as the user left it.
LEMMA SaveNowInv ==
    ASSUME IInv, draft # None, NEW d \in Draft, SaveNow(d),
           d.value = draft.value, d.savedInput = draft.savedInput,
           d.previous \in known', known \subseteq known', known' \subseteq Text,
           d.composing => draft.composing,
           UNCHANGED <<stored, shown, keys, writes, typed, foreign>>
    PROVE  IInv'
<1> USE TextEditsAssumption
<1>1. CASE pending # None \/ d.composing
  <2>1. draft' = d /\ pending' = pending /\ timer' = FALSE
    BY <1>1 DEF SaveNow
  <2>2. d # None /\ d \in Draft
    BY DEF Draft
  <2>3. TypeOK'
    BY <2>1, <2>2 DEF IInv, InputOnItsWay, TypeOK
  <2>4. InputOnItsWay'
    BY <1>1, <2>1, <2>3 DEF InputOnItsWay
  <2>5. Ready' /\ Orphan'
    BY <2>1 DEF IInv, Ready, Orphan
  <2>6. Seen'
    BY <2>1 DEF IInv, Seen
  <2>7. Live' /\ Based'
    BY <2>1 DEF IInv, Live, Based, Changed
  <2>8. LastInputStored'
    BY <2>1 DEF IInv, LastInputStored, Changed
  <2> QED BY <2>4, <2>5, <2>6, <2>7, <2>8 DEF IInv
<1>2. CASE pending = None /\ ~d.composing
  <2>0. Loop(d) /\ timer' = FALSE
    BY <1>2 DEF SaveNow
  <2>1. Looped(d)
    BY <2>0, LoopFacts
  <2>2. draft' # None => Changed(draft') = Changed(d)
    BY <2>1 DEF Looped, Same, Changed
  <2>3. TypeOK'
    BY <2>0, <2>1 DEF IInv, InputOnItsWay, TypeOK, Looped, Same
  <2>4. InputOnItsWay'
    BY <1>2, <2>1, <2>2, <2>3 DEF InputOnItsWay, Looped, Same, Changed
  <2>5. Ready' /\ Orphan'
    BY <2>1 DEF Ready, Orphan, Looped
  <2>6. Seen'
    BY <2>1 DEF Seen, Looped, Same
  <2>7. Live'
    BY <2>1, <2>2 DEF IInv, Live, Looped, Same, Changed
  <2>8. Based'
    BY <2>1 DEF IInv, Based, Looped, Same
  <2>9. LastInputStored'
    BY <1>2, <2>1, <2>2 DEF IInv, LastInputStored, Looped, Same, Changed
  <2> QED BY <2>4, <2>5, <2>6, <2>7, <2>8, <2>9 DEF IInv
<1> QED BY <1>1, <1>2

-----------------------------------------------------------------------------
(* The actions.                                                            *)

\* Nothing is typed and nothing saved at first.
LEMMA InitInv == Init => IInv
<1> SUFFICES ASSUME Init PROVE IInv
  OBVIOUS
<1>1. TypeOK
  <2>1. keys \in 0 .. MaxKeys /\ writes \in 0 .. MaxOthers
    BY TextEditsAssumption DEF Init
  <2>2. known \subseteq Text
    BY DEF Init
  <2> QED BY <2>1, <2>2 DEF Init, TypeOK
<1> QED BY <1>1 DEF Init, IInv, InputOnItsWay, Ready, Orphan, Seen, Live, Based,
                    LastInputStored

\* A draft that is changed in nothing but its focus or its composition.
LEMMA TouchedInv ==
    ASSUME IInv, CanEdit, draft' \in Draft,
           draft'.value = Ensured.value, draft'.previous = Ensured.previous,
           draft'.savedInput = Ensured.savedInput,
           draft'.error = Ensured.error,
           Ensured.composing => draft'.composing,
           timer' = timer \/ draft'.composing, timer' \in BOOLEAN,
           known' = Known,
           UNCHANGED <<stored, shown, writes, foreign, pending, keys, typed>>
    PROVE  IInv'
<1> USE TextEditsAssumption
<1>1. draft' # None
  OBVIOUS
<1>2. Changed(draft') = Changed(Ensured)
  BY DEF Changed
<1>3. TypeOK'
  BY <1>1, EnsuredFacts DEF IInv, InputOnItsWay, TypeOK
<1>4. InputOnItsWay'
  BY <1>2, <1>3, EnsuredFacts DEF IInv, InputOnItsWay
<1>5. Ready' /\ Orphan'
  BY DEF IInv, Ready, Orphan
<1>6. Seen'
  BY EnsuredFacts DEF IInv, Seen
<1>7. Live'
  BY <1>2, EnsuredFacts DEF IInv, Live
<1>8. Based'
  <2>1. ~foreign /\ draft = None /\ stored # None => stored = Norm[Ensured.savedInput]
    BY EnsuredFacts, TextFacts DEF IInv, InputOnItsWay, TypeOK, Based
  <2> QED BY <2>1, EnsuredFacts DEF IInv, Based
<1>9. LastInputStored'
  BY <1>2, EnsuredFacts DEF IInv, LastInputStored
<1> QED BY <1>4, <1>5, <1>6, <1>7, <1>8, <1>9 DEF IInv

\* The field gets the focus.
LEMMA BeginInv == ASSUME IInv, Begin PROVE IInv'
<1>1. Ensured \in Draft
  BY EnsuredFacts DEF Begin
<1>2. /\ draft' \in Draft /\ draft'.composing = Ensured.composing
      /\ draft'.value = Ensured.value /\ draft'.previous = Ensured.previous
      /\ draft'.savedInput = Ensured.savedInput /\ draft'.error = Ensured.error
  BY <1>1 DEF Begin, Draft
<1> QED BY <1>2, TouchedInv DEF Begin, Outside, IInv, InputOnItsWay, TypeOK

\* The input method opens: the timer is replaced by the composition.
LEMMA StartCompositionInv == ASSUME IInv, StartComposition PROVE IInv'
<1>1. Ensured \in Draft
  BY EnsuredFacts DEF StartComposition
<1>2. /\ draft' \in Draft /\ draft'.composing
      /\ draft'.value = Ensured.value /\ draft'.previous = Ensured.previous
      /\ draft'.savedInput = Ensured.savedInput /\ draft'.error = Ensured.error
  BY <1>1 DEF StartComposition, Draft
<1> QED BY <1>2, TouchedInv DEF StartComposition, Outside

\* change(), for the draft there is or a new one.
LEMMA TypedInv ==
    ASSUME IInv, CanEdit, NEW d \in Draft, NEW v \in Input, Typed(d, v),
           d.previous = Ensured.previous, d.savedInput = Ensured.savedInput,
           UNCHANGED pending, Outside
    PROVE  IInv'
<1> USE TextEditsAssumption DEF Outside
<1>1. /\ draft' \in Draft /\ draft' # None /\ draft'.value = v
      /\ draft'.previous = Ensured.previous /\ draft'.savedInput = Ensured.savedInput
      /\ draft'.composing = d.composing
  BY DEF Typed, Draft
<1>2. keys' \in 0 .. MaxKeys /\ timer' \in BOOLEAN /\ typed' = v /\ known' = Known
  BY DEF Typed, IInv, InputOnItsWay, TypeOK, Draft
<1>3. TypeOK'
  BY <1>1, <1>2, EnsuredFacts DEF IInv, InputOnItsWay, TypeOK
<1>4. InputOnItsWay'
  BY <1>1, <1>3 DEF InputOnItsWay, Typed
<1>5. Ready' /\ Orphan'
  BY DEF IInv, Ready, Orphan
<1>6. Seen'
  BY <1>1, <1>2, EnsuredFacts DEF IInv, Seen
<1>7. Live'
  BY <1>1, <1>2 DEF Live
<1>8. Based'
  <2>1. ~foreign /\ draft = None /\ stored # None => stored = Norm[Ensured.savedInput]
    BY EnsuredFacts, TextFacts DEF IInv, InputOnItsWay, TypeOK, Based
  <2> QED BY <1>1, <2>1, EnsuredFacts DEF IInv, Based
<1>9. LastInputStored'
  BY <1>1, <1>2, <1>8 DEF LastInputStored, Based, Changed
<1> QED BY <1>4, <1>5, <1>6, <1>7, <1>8, <1>9 DEF IInv

\* A keystroke.
LEMMA ChangeInv == ASSUME IInv, NEW v \in Input, Change(v) PROVE IInv'
BY EnsuredFacts, TypedInv DEF Change

\* The composed text is taken over, on the draft that composed it.
LEMMA EndCompositionInv == ASSUME IInv, NEW v \in Input, EndComposition(v) PROVE IInv'
<1> DEFINE d == [draft EXCEPT !.composing = FALSE]
<1>1. CanEdit /\ Ensured = draft /\ draft \in Draft
  BY DEF EndComposition, CanEdit, Ensured, IInv, InputOnItsWay, TypeOK
<1>2. d \in Draft /\ d.previous = draft.previous /\ d.savedInput = draft.savedInput
  BY <1>1 DEF Draft
<1>3. Typed(d, v) /\ UNCHANGED pending /\ Outside
  BY DEF EndComposition
<1> QED BY <1>1, <1>2, <1>3, TypedInv

\* An error stays; anything else is saved.
LEMMA BlurInv == ASSUME IInv, Blur PROVE IInv'
<1> DEFINE d == [draft EXCEPT !.focused = FALSE, !.composing = FALSE]
<1>1. draft \in Draft /\ draft # None /\ known \subseteq Text
  BY DEF Blur, IInv, InputOnItsWay, TypeOK
<1>2. /\ d \in Draft /\ d.value = draft.value /\ d.previous = draft.previous
      /\ d.savedInput = draft.savedInput /\ ~d.composing /\ d.error = draft.error
  BY <1>1 DEF Draft
<1>3. CASE draft.error
  <2>1. draft' = d /\ UNCHANGED <<timer, pending, keys, typed, known>> /\ Outside
    BY <1>3 DEF Blur
  <2> HIDE DEF d
  <2>2. Changed(draft') = Changed(draft) /\ draft' # None
    BY <1>2, <2>1, TextEditsAssumption DEF Changed
  <2>3. TypeOK'
    BY <1>1, <1>2, <2>1, <2>2 DEF IInv, InputOnItsWay, TypeOK, Outside
  <2>4. InputOnItsWay'
    BY <1>2, <1>3, <2>1, <2>3 DEF InputOnItsWay
  <2>5. Ready' /\ Orphan' /\ Seen'
    BY <1>1, <1>2, <2>1 DEF IInv, Ready, Orphan, Seen, Outside
  <2>6. Live' /\ Based'
    BY <1>1, <1>2, <2>1, <2>2 DEF IInv, Live, Based, Outside
  <2>7. LastInputStored'
    BY <1>1, <2>1, <2>2 DEF IInv, LastInputStored, Outside
  <2> QED BY <2>4, <2>5, <2>6, <2>7 DEF IInv
<1>4. CASE ~draft.error
  <2>1. SaveNow(d) /\ UNCHANGED <<keys, typed, known>> /\ Outside
    BY <1>4 DEF Blur
  <2> HIDE DEF d
  <2>2. d.previous \in known'
    BY <1>1, <1>2, <2>1 DEF IInv, Seen
  <2> QED BY <1>1, <1>2, <2>1, <2>2, SaveNowInv DEF Outside
<1> QED BY <1>3, <1>4

\* The text in memory becomes one the user has had.
LEMMA KeepMineInv == ASSUME IInv, KeepMine PROVE IInv'
<1> DEFINE read == IF shown # None THEN shown ELSE draft.previous
           d == [draft EXCEPT !.previous = read]
<1>1. draft \in Draft /\ draft # None /\ read \in Text /\ known \subseteq Text
  BY DEF KeepMine, IInv, InputOnItsWay, TypeOK, Draft
<1>2. SaveNow(d) /\ known' = known \cup {read} /\ UNCHANGED <<keys, typed>> /\ Outside
  BY DEF KeepMine
<1> HIDE DEF read
<1>3. /\ d \in Draft /\ d.value = draft.value /\ d.previous = read
      /\ d.savedInput = draft.savedInput /\ d.composing = draft.composing
  BY <1>1 DEF Draft
<1> HIDE DEF d
<1> QED BY <1>1, <1>2, <1>3, SaveNowInv DEF Outside

\* A timer that fires, or flush.
LEMMA SavedInv ==
    ASSUME IInv, draft # None, SaveNow(draft), UNCHANGED <<keys, typed, known>>, Outside
    PROVE  IInv'
<1>1. draft \in Draft /\ draft.previous \in known' /\ known' \subseteq Text
  BY DEF IInv, InputOnItsWay, TypeOK, Seen
<1> QED BY <1>1, SaveNowInv DEF Outside

\* The timer may fire after its draft has gone.
LEMMA FireInv == ASSUME IInv, Fire PROVE IInv'
<1>1. CASE draft # None
  BY <1>1, SavedInv DEF Fire
<1>2. CASE draft = None
  <2>1. timer' = FALSE /\ UNCHANGED <<draft, pending, keys, typed, known>> /\ Outside
    BY <1>2 DEF Fire
  <2>2. TypeOK'
    BY <2>1 DEF IInv, InputOnItsWay, TypeOK, Outside
  <2> QED BY <1>2, <2>1, <2>2
          DEF IInv, InputOnItsWay, Ready, Orphan, Seen, Live, Based, LastInputStored, Outside
<1> QED BY <1>1, <1>2

\* The draft of no save is given up.
LEMMA RestoreInv == ASSUME IInv, Restore PROVE IInv'
<1>1. TypeOK'
  BY DEF Restore, IInv, InputOnItsWay, TypeOK, Outside
<1> QED BY <1>1
        DEF Restore, IInv, InputOnItsWay, Ready, Orphan, Seen, Live, Based, LastInputStored,
            Outside

\* What was saved is what is stored now; what was typed meanwhile is next.
LEMMA SaveDoneInv == ASSUME IInv, SaveDone PROVE IInv'
<1> USE TextEditsAssumption
<1>1. /\ pending \in Save /\ pending.own /\ draft \in Draft /\ draft # None
      /\ Norm[pending.input] \in Text
  <2>1. pending \in Save /\ stored # None
    BY DEF SaveDone, Accepts, IInv, InputOnItsWay, TypeOK
  <2>2. pending.own
    BY <2>1 DEF SaveDone, IInv, Orphan, Save
  <2>3. draft \in Draft /\ draft # None
    BY <2>2 DEF SaveDone, IInv, InputOnItsWay, TypeOK
  <2>4. Norm[pending.input] \in Text
    BY <2>1, TextFacts DEF SaveDone, IInv, Ready, Save
  <2> QED BY <2>1, <2>2, <2>3, <2>4
<1> DEFINE d == [draft EXCEPT !.previous = Norm[pending.input], !.savedInput = pending.input]
<1>2. /\ d \in Draft /\ d.value = draft.value /\ d.previous = Norm[pending.input]
      /\ d.savedInput = pending.input
  BY <1>1 DEF Draft, Save
<1>3. /\ stored' = Norm[pending.input] /\ shown' = stored' /\ ~foreign'
      /\ known' = known \cup {stored'} /\ Loop(d) /\ UNCHANGED <<timer, keys, writes, typed>>
  BY <1>1 DEF SaveDone
<1> HIDE DEF d
<1>4. Looped(d)
  BY <1>2, <1>3, LoopFacts
<1>5. draft' # None => Changed(draft') = Changed(d)
  BY <1>4 DEF Looped, Same, Changed
<1>6. TypeOK'
  <2>1. /\ stored' \in Text \cup {None} /\ shown' \in Text \cup {None}
        /\ known' \subseteq Text /\ foreign' \in BOOLEAN
    BY <1>1, <1>3, ZenonT(20) DEF SaveDone, IInv, InputOnItsWay, TypeOK
  <2>2. /\ draft' \in Draft \cup {None} /\ pending' \in Save \cup {None}
        /\ pending' # None => (pending'.own <=> draft' # None)
    BY <1>4 DEF Looped, Same
  <2> QED BY <1>3, <2>1, <2>2 DEF IInv, InputOnItsWay, TypeOK
<1>7. InputOnItsWay'
  BY <1>4, <1>5, <1>6 DEF InputOnItsWay, Looped, Same
<1>8. Ready' /\ Orphan'
  BY <1>4 DEF Ready, Orphan, Looped
<1>9. Seen'
  BY <1>2, <1>3, <1>4 DEF Seen, Looped, Same
<1>10. Live'
  BY <1>1, <1>2, <1>3, <1>4, <1>5 DEF SaveDone, IInv, Live, Looped, Same
<1>11. Based'
  BY <1>2, <1>3, <1>4 DEF Based, Looped, Same
<1>12. LastInputStored'
  <2>1. typed' = draft.value
    BY <1>1, <1>3 DEF SaveDone, IInv, Live
  <2>2. (draft' = None \/ ~Changed(draft')) => draft.value = pending.input
    BY <1>2, <1>4, <1>5 DEF Looped, Changed
  <2> QED BY <1>3, <2>1, <2>2 DEF LastInputStored
<1> QED BY <1>7, <1>8, <1>9, <1>10, <1>11, <1>12 DEF IInv

\* The input of a save is the last input, or it is still on its way.
LEMMA SaveFailsInv == ASSUME IInv, SaveFails PROVE IInv'
<1> USE TextEditsAssumption
<1>1. pending \in Save /\ (pending.own <=> draft # None)
  BY DEF SaveFails, IInv, InputOnItsWay, TypeOK
<1>2. CASE pending.own
  <2>1. draft \in Draft /\ draft # None
    BY <1>1, <1>2 DEF IInv, InputOnItsWay, TypeOK
  <2>2. /\ draft' \in Draft /\ draft' # None /\ draft'.error
        /\ draft'.value = draft.value /\ draft'.previous = draft.previous
        /\ draft'.savedInput = draft.savedInput
    BY <1>2, <2>1 DEF SaveFails, Draft
  <2>3. /\ pending' = None /\ shown' = stored
        /\ UNCHANGED <<stored, timer, keys, writes, typed, known, foreign>>
    BY DEF SaveFails
  <2>4. Changed(draft') = Changed(draft)
    BY <2>2 DEF Changed
  <2>5. TypeOK'
    BY <2>2, <2>3 DEF IInv, InputOnItsWay, TypeOK
  <2>6. InputOnItsWay' /\ Ready' /\ Orphan'
    BY <2>2, <2>3, <2>5 DEF InputOnItsWay, Ready, Orphan
  <2>7. Seen' /\ Live' /\ Based'
    BY <2>1, <2>2, <2>3, <2>4 DEF IInv, Seen, Live, Based
  <2>8. LastInputStored'
    <3>1. typed = draft.value
      BY <2>1 DEF SaveFails, IInv, Live
    <3> QED BY <2>1, <2>2, <2>3, <2>4, <3>1 DEF IInv, LastInputStored, Based, Changed
  <2> QED BY <2>6, <2>7, <2>8 DEF IInv
<1>3. CASE ~pending.own
  <2>1. draft = None /\ stored = None
    BY <1>1, <1>3 DEF SaveFails, IInv, Orphan
  <2>2. /\ draft' = None /\ pending' = None /\ stored' = None /\ shown' = None
        /\ UNCHANGED <<timer, keys, writes, typed, known, foreign>>
    BY <1>3, <2>1 DEF SaveFails
  <2>3. TypeOK'
    BY <2>2 DEF IInv, InputOnItsWay, TypeOK
  <2> QED BY <2>2, <2>3
          DEF IInv, InputOnItsWay, Ready, Orphan, Seen, Live, Based, LastInputStored
<1> QED BY <1>2, <1>3

\* Another tab writes: what was based on the old text no longer counts.
LEMMA OtherWritesInv ==
    ASSUME IInv, NEW x \in Text \cup {None}, OtherWrites(x)
    PROVE  IInv'
<1>1. TypeOK'
  <2>1. writes' \in 0 .. MaxOthers
    BY TextEditsAssumption DEF OtherWrites, IInv, InputOnItsWay, TypeOK
  <2> QED BY <2>1 DEF OtherWrites, IInv, InputOnItsWay, TypeOK
<1> QED BY <1>1
        DEF OtherWrites, IInv, InputOnItsWay, Ready, Orphan, Seen, Live, Based, LastInputStored

\* With the task go the draft and its claim on the save under way.
LEMMA RefreshInv == ASSUME IInv, Refresh PROVE IInv'
<1> USE TextEditsAssumption
<1>1. CASE stored = None
  <2>1. /\ shown' = None /\ stored' = None /\ draft' = None /\ typed' = None /\ timer' = FALSE
        /\ UNCHANGED <<keys, writes, known, foreign>>
    BY <1>1 DEF Refresh
  <2>2. CASE pending = None
    <3>1. pending' = None
      BY <1>1, <2>2 DEF Refresh
    <3>2. TypeOK'
      BY <2>1, <3>1 DEF IInv, InputOnItsWay, TypeOK
    <3> QED BY <2>1, <3>1, <3>2
            DEF IInv, InputOnItsWay, Ready, Orphan, Seen, Live, Based, LastInputStored
  <2>3. CASE pending # None
    <3>1. pending \in Save /\ pending' = [pending EXCEPT !.own = FALSE]
      BY <1>1, <2>3 DEF Refresh, IInv, InputOnItsWay, TypeOK
    <3>2. pending' \in Save /\ pending'.input = pending.input /\ ~pending'.own
      BY <3>1 DEF Save
    <3>3. TypeOK'
      BY <2>1, <3>2 DEF IInv, InputOnItsWay, TypeOK
    <3>4. Ready'
      BY <2>3, <3>2 DEF IInv, Ready
    <3> QED BY <2>1, <3>2, <3>3, <3>4
            DEF IInv, InputOnItsWay, Orphan, Seen, Live, Based, LastInputStored
  <2> QED BY <2>2, <2>3
<1>2. CASE stored # None
  <2>1. shown' = stored /\ UNCHANGED <<stored, draft, timer, pending, typed, keys, writes, known, foreign>>
    BY <1>2 DEF Refresh
  <2>2. TypeOK'
    BY <2>1 DEF IInv, InputOnItsWay, TypeOK
  <2> QED BY <1>2, <2>1, <2>2
          DEF IInv, InputOnItsWay, Ready, Orphan, Seen, Live, Based, LastInputStored, Changed
<1> QED BY <1>1, <1>2

\* Steps of nobody.
LEMMA StutterInv == ASSUME IInv, UNCHANGED vars PROVE IInv'
BY DEF vars, IInv, InputOnItsWay, TypeOK, Ready, Orphan, Seen, Live, Based, LastInputStored, Changed

\* Every step keeps the invariant.
LEMMA StepInv == ASSUME IInv, [Next]_vars PROVE IInv'
<1>1. ASSUME Keyboard PROVE IInv'
  BY <1>1, BeginInv, StartCompositionInv, ChangeInv, EndCompositionInv DEF Keyboard
<1>2. ASSUME Flush PROVE IInv'
  BY <1>2, SavedInv DEF Flush
<1>3. ASSUME System PROVE IInv'
  BY <1>2, <1>3, FireInv, SaveDoneInv, SaveFailsInv, RefreshInv DEF System
<1>4. ASSUME NEW x \in Text \cup {None}, OtherWrites(x) PROVE IInv'
  BY <1>4, OtherWritesInv
<1> QED BY <1>1, <1>3, <1>4, BlurInv, KeepMineInv, RestoreInv, StutterInv DEF Next, User

-----------------------------------------------------------------------------
(* The results.                                                            *)

\* The invariant holds in every behaviour.
THEOREM Invariance == Spec => []IInv
<1> QED BY InitInv, StepInv, PTL DEF Spec

\* Input that is not stored is never forgotten.
THEOREM InputIsOnItsWay == Spec => []InputOnItsWay
<1>1. IInv => InputOnItsWay
  BY DEF IInv
<1> QED BY <1>1, Invariance, PTL

\* What is stored is the last input.
THEOREM LastInputIsStored == Spec => []LastInputStored
<1>1. IInv => LastInputStored
  BY DEF IInv
<1> QED BY <1>1, Invariance, PTL

\* A draft disappears when it is stored, by the user's own act, or with its task.
THEOREM DraftsAreKept == Spec => DraftKept
<1> DEFINE Keeps == draft # None /\ draft' = None =>
                ~Changed(draft) \/ typed' = None \/ (pending # None /\ draft.value = pending.input)
<1> USE TextEditsAssumption
<1>1. ASSUME IInv, Next PROVE Keeps
  <2> SUFFICES ASSUME draft # None, draft' = None PROVE Keeps
    OBVIOUS
  <2>1. draft \in Draft
    BY <1>1 DEF IInv, InputOnItsWay, TypeOK
  <2>2. ASSUME NEW d \in Draft, SaveNow(d), d.value = draft.value, d.savedInput = draft.savedInput
        PROVE  Keeps
    <3>1. d # None
      OBVIOUS
    <3>2. Loop(d)
      BY <2>2, <3>1 DEF SaveNow
    <3> QED BY <2>2, <3>2, LoopFacts DEF Looped, Changed
  <2>3. ASSUME Keyboard PROVE Keeps
    <3>1. Ensured = draft
      BY DEF Ensured
    <3>2. ASSUME Begin \/ StartComposition PROVE FALSE
      BY <2>1, <3>1, <3>2 DEF Begin, StartComposition, Draft
    <3>3. ASSUME NEW v \in Input, NEW d \in Draft, Typed(d, v) PROVE FALSE
      <4>1. draft' \in Draft
        BY <3>3 DEF Typed, Draft
      <4> QED BY <4>1
    <3>4. ASSUME NEW v \in Input, Change(v) PROVE FALSE
      BY <2>1, <3>1, <3>3, <3>4 DEF Change
    <3>5. ASSUME NEW v \in Input, EndComposition(v) PROVE FALSE
      <4>1. [draft EXCEPT !.composing = FALSE] \in Draft
        BY <2>1 DEF Draft
      <4> QED BY <3>3, <3>5, <4>1 DEF EndComposition
    <3> QED BY <2>3, <3>2, <3>4, <3>5 DEF Keyboard
  <2>4. ASSUME Blur PROVE Keeps
    <3> DEFINE d == [draft EXCEPT !.focused = FALSE, !.composing = FALSE]
    <3>1. d \in Draft /\ d.value = draft.value /\ d.savedInput = draft.savedInput
      BY <2>1 DEF Draft
    <3>2. draft' = d \/ SaveNow(d)
      BY <2>4 DEF Blur
    <3> HIDE DEF d
    <3> QED BY <2>2, <3>1, <3>2
  <2>5. ASSUME KeepMine PROVE Keeps
    <3> DEFINE read == IF shown # None THEN shown ELSE draft.previous
               d == [draft EXCEPT !.previous = read]
    <3>1. read \in Text
      BY <1>1, <2>1 DEF IInv, InputOnItsWay, TypeOK, Draft
    <3>2. SaveNow(d)
      BY <2>5 DEF KeepMine
    <3> HIDE DEF read
    <3>3. d \in Draft /\ d.value = draft.value /\ d.savedInput = draft.savedInput
      BY <2>1, <3>1 DEF Draft
    <3> HIDE DEF d
    <3> QED BY <2>2, <3>2, <3>3
  <2>6. ASSUME SaveDone PROVE Keeps
    <3>1. pending \in Save /\ pending.own
      BY <1>1, <2>6 DEF SaveDone, IInv, InputOnItsWay, TypeOK
    <3> DEFINE d == [draft EXCEPT !.previous = Norm[pending.input], !.savedInput = pending.input]
    <3>2. Loop(d)
      BY <2>6, <3>1 DEF SaveDone
    <3>3. Norm[pending.input] \in Text
      BY <1>1, <2>6, <3>1, TextFacts DEF SaveDone, IInv, Ready, Save
    <3>4. d \in Draft /\ d.value = draft.value /\ d.savedInput = pending.input
      BY <2>1, <3>1, <3>3 DEF Draft, Save
    <3> HIDE DEF d
    <3> QED BY <2>6, <3>2, <3>4, LoopFacts DEF Looped, Changed, SaveDone
  <2>7. ASSUME SaveFails PROVE Keeps
    <3>1. [draft EXCEPT !.error = TRUE] \in Draft
      BY <2>1 DEF Draft
    <3> QED BY <2>1, <2>7, <3>1 DEF SaveFails
  <2>8. ASSUME Restore \/ Refresh PROVE Keeps
    BY <2>8 DEF Restore, Refresh
  <2>9. ASSUME Fire \/ Flush PROVE Keeps
    BY <2>1, <2>2, <2>9 DEF Fire, Flush
  <2>10. ASSUME NEW x \in Text \cup {None}, OtherWrites(x) PROVE Keeps
    BY <2>10 DEF OtherWrites
  <2> QED BY <1>1, <2>3, <2>4, <2>5, <2>6, <2>7, <2>8, <2>9, <2>10 DEF Next, User, System
<1>2. IInv /\ [Next]_vars => [Keeps]_vars
  BY <1>1
<1> QED BY <1>2, Invariance, PTL DEF Spec, DraftKept

\* No text that the user has not seen is replaced by this editor.
THEOREM KnownIsReplaced == Spec => KnownReplaced
<1> DEFINE Replaces == stored' # stored /\ writes' = writes => stored \in known
<1>1. ASSUME IInv, Next PROVE Replaces
  <2>1. ASSUME SaveDone PROVE Replaces
    <3>1. pending # None /\ stored # None /\ stored \in {pending.previous, Norm[pending.input]}
          /\ stored' = Norm[pending.input]
      BY <2>1 DEF SaveDone, Accepts
    <3> QED BY <1>1, <3>1 DEF IInv, Orphan, Seen
  <2>2. ASSUME NEW x \in Text \cup {None}, OtherWrites(x) PROVE Replaces
    <3>1. writes \in Nat /\ writes' = writes + 1
      BY <1>1, <2>2, TextEditsAssumption DEF IInv, InputOnItsWay, TypeOK, OtherWrites
    <3> QED BY <3>1
  <2>3. ASSUME User \/ Fire \/ Flush \/ SaveFails \/ Refresh PROVE stored' = stored
    BY <2>3 DEF User, Keyboard, Begin, StartComposition, Change, EndComposition, Blur, KeepMine,
                Restore, Fire, Flush, SaveFails, Refresh, Outside
  <2> QED BY <1>1, <2>1, <2>2, <2>3 DEF Next, System
<1>2. IInv /\ [Next]_vars => [Replaces]_vars
  BY <1>1
<1> QED BY <1>2, Invariance, PTL DEF Spec, KnownReplaced

=============================================================================
