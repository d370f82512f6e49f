------------------------------ MODULE Glossary ------------------------------
(***************************************************************************)
(* The terms of a task: how storage.ts checks and names them, which of     *)
(* them go with a request (glossary.ts), what an answer adds               *)
(* (translation.ts) and how a field is edited by its term's name           *)
(* (storage.ts, memoryEdits.ts).                                           *)
(*                                                                         *)
(* Two elements of Source are two terms that termKey tells apart; targets, *)
(* notes and the style memo differ in nothing but their field.             *)
(***************************************************************************)
EXTENDS Integers, SequencesExt, Lists

CONSTANTS
    Source, Target, \* texts of a term that normalizeMemory accepts
    Blank,          \* a text it refuses
    Size,           \* their lengths
    Budget,         \* glossaryCharacterBudget
    MaxReply        \* limits.newTerms

ASSUME GlossaryAssumption ==
    /\ Blank \notin Source \cup Target
    /\ Size \in [Source \cup Target -> Nat \ {0}] /\ Budget \in Nat /\ MaxReply \in Nat

-----------------------------------------------------------------------------
(* Names.  Those made by the code are of a kind, numbered, and lengthened  *)
(* by "-new" or "-copy" as often as it takes to be new.                    *)

NoID == <<>>
ID(kind, n) == <<kind, n, 0>>
Longer(id, k) == <<id[1], id[2], id[3] + k>>
FreeID(id, taken) ==
    LET k == CHOOSE k \in 0 .. Cardinality(taken) :
                 Longer(id, k) \notin taken /\ \A m \in 0 .. k - 1 : Longer(id, m) \in taken
    IN  Longer(id, k)

Term(id, source, target, locked) ==
    [id |-> id, source |-> source, target |-> target, locked |-> locked]
Sources(terms) == {t.source : t \in ToSet(terms)}

\* terms, with identities: who has no name gets one from its place.
Identified(terms) ==
    LET reserved == {t.id : t \in ToSet(terms)}
    IN  [i \in DOMAIN terms |->
            IF terms[i].id # NoID THEN terms[i]
            ELSE [terms[i] EXCEPT !.id = FreeID(ID("legacy", i - 1), reserved)]]
TermsValid(terms) ==
    \A i, k \in DOMAIN terms : i # k =>
        terms[i].source # terms[k].source /\ (terms[i].id # terms[k].id \/ terms[i].id = NoID)

-----------------------------------------------------------------------------
(* What goes with a request: terms found in its cues (now) or in the lines *)
(* around them (near).                                                     *)

Cost(t) == Size[t.source] + Size[t.target]
Priority(t, now) == IF t.source \in now THEN IF t.locked THEN 0 ELSE 1
                    ELSE IF t.locked THEN 2 ELSE 3
Spent(terms) ==
    LET spent[i \in 0 .. Len(terms)] == IF i = 0 THEN 0 ELSE spent[i - 1] + Cost(terms[i])
    IN  spent[Len(terms)]
Fill(chosen, t) == IF Spent(chosen) + Cost(t) <= Budget THEN Append(chosen, t) ELSE chosen
Filled(terms) ==
    LET filled[i \in 0 .. Len(terms)] == IF i = 0 THEN <<>> ELSE Fill(filled[i - 1], terms[i])
    IN  filled[Len(terms)]
Found(terms, now, near) == Only(terms, {t \in ToSet(terms) : t.source \in now \cup near})

\* Fault: the budget is filled in the order of the list.
SelectedAsListed(terms, now, near) == Filled(Found(terms, now, near))

\* What is sent before what: by priority, the longer first, else as listed.
Before(c, now, i, k) ==
    \/ Priority(c[i], now) < Priority(c[k], now)
    \/ /\ Priority(c[i], now) = Priority(c[k], now)
       /\ \/ Size[c[i].source] > Size[c[k].source]
          \/ Size[c[i].source] = Size[c[k].source] /\ i < k
Rank(c, now, i) == Cardinality({k \in DOMAIN c : Before(c, now, k, i)}) + 1
Sorted(c, now) == [n \in DOMAIN c |-> c[CHOOSE i \in DOMAIN c : Rank(c, now, i) = n]]

\* selectGlossary: in this order, each that still fits.
Selected(terms, now, near) == Filled(Sorted(Found(terms, now, near), now))

-----------------------------------------------------------------------------
(* What an answer adds: pairs of texts, some of them known already, some   *)
(* not in the block.                                                       *)

Reply == BoundedSeq([source : Source, target : Target], MaxReply)

\* Fault: an answer is compared with the terms that were sent along.
LearnedFromSent(terms, reply, now) ==
    LET sent == Sources(Selected(terms, now, {}))
        new == SelectSeq(reply, LAMBDA t : t.source \in now \ sent)
    IN  terms \o [i \in DOMAIN new |-> Term(NoID, new[i].source, new[i].target, FALSE)]

\* The glossary part of parseTranslation: the terms of the task stand.
Learn(known, t, now) ==
    IF t.source \in Sources(known) \/ t.source \notin now THEN known
    ELSE Append(known, Term(NoID, t.source, t.target, FALSE))
Learned(terms, reply, now) ==
    LET learned[i \in 0 .. Len(reply)] ==
            IF i = 0 THEN terms ELSE Learn(learned[i - 1], reply[i], now)
    IN  learned[Len(reply)]

\* What some answer to some block makes of the terms.
Answered(terms) == {Learned(terms, a[1], a[2]) : a \in Reply \X SUBSET Source}

-----------------------------------------------------------------------------
(* Editing.  A field f is one of the texts of the term called f.term.      *)

HasField(terms, f) == \E t \in ToSet(terms) : t.id = f.term
\* memoryValue
MemoryValue(terms, f) ==
    LET t == CHOOSE t \in ToSet(terms) : t.id = f.term
    IN  IF f.text = "source" THEN t.source ELSE t.target

\* applyMemoryEdit, and its refusals: the term is gone, the input is invalid,
\* another tab was there first, or the source is another term's.
MayEdit(terms, f, value, previous) ==
    /\ HasField(terms, f)
    /\ value # Blank
    /\ MemoryValue(terms, f) \in {previous, value}
    /\ f.text = "source" => \A t \in ToSet(terms) : t.id # f.term => t.source # value
Edited(terms, f, value) ==
    [i \in DOMAIN terms |->
        LET t == terms[i]
        IN  IF t.id # f.term THEN t
            ELSE IF f.text = "source" THEN Term(t.id, value, t.target, TRUE)
            ELSE Term(t.id, t.source, value, TRUE)]

=============================================================================
