--------------------------- MODULE RecordsProofs ---------------------------
(***************************************************************************)
(* Theorems about Records, for any texts, seeds and bounds: what a         *)
(* workspace holds is neither lost nor given a name twice, and whatever an *)
(* operation leaves behind is read back as it is.                          *)
(***************************************************************************)
EXTENDS Records, ListTheorems, FiniteSetTheorems, SequenceTheorems

USE GlossaryAssumption, RecordsAssumption

-----------------------------------------------------------------------------
(* Types, with the names that may occur after m have been made.            *)

Kind == {"local", "legacy", "recovery", "draft"}
NameUpTo(m) == {NoID} \cup {id \in Kind \X Nat \X Nat : id[1] = "local" => id[2] <= m}
TermUpTo(m) == [id : NameUpTo(m), source : Source, target : Target, locked : BOOLEAN]

\* What a draft says: the name of a term, its field, the input.
Said(m) == NameUpTo(m) \X {"source", "target"} \X (Source \cup Target \cup {Blank})
RawUpTo(m) ==
    [id : NameUpTo(m), content : Said(m) \cup Seq(Nat), form : {"new", "old", "draft"},
     hurt : {"no", "log", "text"}, terms : Seq(TermUpTo(m))]
RecordUpTo(m) == [id : NameUpTo(m), data : RawUpTo(m)]
Work(m) == [jobs : Seq(RawUpTo(m)), recovery : Seq(RecordUpTo(m))]
DraftUpTo(m) ==
    [job : NameUpTo(m), term : NameUpTo(m), text : {"source"}, value : Source \cup {Blank},
     previous : Source]
      \cup [job : NameUpTo(m), term : NameUpTo(m), text : {"target"},
            value : Target \cup {Blank}, previous : Target]

-----------------------------------------------------------------------------
(* Names.                                                                  *)

Triple == Kind \X Nat \X Nat

LEMMA LongerFacts ==
    ASSUME NEW m \in Nat, NEW id \in NameUpTo(m), id # NoID, NEW k \in Nat
    PROVE  /\ Longer(id, k) \in NameUpTo(m) /\ Longer(id, k) # NoID
           /\ Longer(id, k)[1] = id[1] /\ Longer(id, k)[2] = id[2]
           /\ Longer(id, 0) = id
           /\ \A j \in Nat : Longer(id, j) = Longer(id, k) => j = k
BY DEF Longer, NameUpTo, NoID

LEMMA IDFacts ==
    ASSUME NEW m \in Nat, NEW kind \in Kind, NEW n \in Nat, kind = "local" => n <= m
    PROVE  ID(kind, n) \in NameUpTo(m) /\ ID(kind, n) # NoID
BY DEF ID, NameUpTo, NoID

\* FreeID gives a name that is not taken, and the one asked for if that is free.
LEMMA FreeIDFacts ==
    ASSUME NEW m \in Nat, NEW id \in NameUpTo(m), id # NoID, NEW taken, IsFiniteSet(taken)
    PROVE  /\ FreeID(id, taken) \notin taken
           /\ FreeID(id, taken) \in NameUpTo(m) /\ FreeID(id, taken) # NoID
           /\ FreeID(id, taken)[1] = id[1] /\ FreeID(id, taken)[2] = id[2]
           /\ id \notin taken => FreeID(id, taken) = id
<1> DEFINE c == Cardinality(taken)
           Good(k) == Longer(id, k) \notin taken
                      /\ \A j \in 0 .. k - 1 : Longer(id, j) \in taken
<1>1. c \in Nat
  BY FS_CardinalityType
<1>2. \E k \in 0 .. c : Longer(id, k) \notin taken
  <2> SUFFICES ASSUME \A k \in 0 .. c : Longer(id, k) \in taken PROVE FALSE
    OBVIOUS
  <2>1. PICK f : f = [k \in 0 .. c |-> Longer(id, k)]
    OBVIOUS
  <2>2. f \in [0 .. c -> taken]
    BY <2>1
  <2>3. IsFiniteSet(0 .. c) /\ Cardinality(0 .. c) = c + 1
    BY <1>1, FS_Interval
  <2>4. \E j, k \in 0 .. c : j # k /\ f[j] = f[k]
    BY <2>2, <2>3, <1>1, FS_PigeonHole
  <2>5. \A j, k \in 0 .. c : Longer(id, j) = Longer(id, k) => j = k
    BY LongerFacts
  <2> QED BY <2>1, <2>4, <2>5
<1>3. PICK T : T = {k \in 0 .. c : Longer(id, k) \notin taken}
  OBVIOUS
<1>4. PICK l \in T : \A k \in T : l <= k
  <2>1. T \in SUBSET Nat /\ T # {}
    BY <1>1, <1>2, <1>3
  <2> QED BY <2>1, LeastNumber
<1>5. l \in 0 .. c /\ Good(l)
  BY <1>3, <1>4, <1>1
<1>6. PICK k \in 0 .. c : k = CHOOSE j \in 0 .. c : Good(j)
  BY <1>5
<1>7. Good(k) /\ FreeID(id, taken) = Longer(id, k)
  BY <1>5, <1>6 DEF FreeID
<1>8. ASSUME id \notin taken PROVE k = 0
  <2>1. Longer(id, 0) \notin taken
    BY <1>8, LongerFacts
  <2> QED BY <2>1, <1>7
<1>9. k \in Nat
  BY <1>6
<1>10. Longer(id, k) \notin taken
  BY <1>7
<1> HIDE DEF Good
<1>11. /\ Longer(id, k) \in NameUpTo(m) /\ Longer(id, k) # NoID
       /\ Longer(id, k)[1] = id[1] /\ Longer(id, k)[2] = id[2] /\ Longer(id, 0) = id
  BY <1>9, LongerFacts
<1> QED BY <1>7, <1>8, <1>10, <1>11

LEMMA IdsFinite ==
    ASSUME NEW S, NEW s \in Seq(S) PROVE IsFiniteSet(Ids(s))
<1>1. PICK f : f = [i \in 1 .. Len(s) |-> s[i].id]
  OBVIOUS
<1>2. Ids(s) = {f[i] : i \in 1 .. Len(s)}
  BY <1>1 DEF Ids, ToSet
<1>3. IsFiniteSet(1 .. Len(s))
  BY FS_Interval
<1>4. f \in Surjection(1 .. Len(s), Ids(s))
  BY <1>1, <1>2 DEF Surjection
<1> QED BY <1>3, <1>4, FS_Surjection

-----------------------------------------------------------------------------
(* Reading one task.                                                       *)

Unlike(s) == \A i, k \in DOMAIN s : i # k => s[i].id # s[k].id
Named(s) == \A i \in DOMAIN s : s[i].id # NoID

\* A task as it is read, and what a load returns.
Whole(raw) ==
    /\ raw.id # NoID /\ raw.form = "new" /\ raw.hurt = "no"
    /\ TermsValid(raw.terms) /\ Named(raw.terms)
Clean(js, rs) ==
    /\ \A i \in DOMAIN js : Whole(js[i])
    /\ Unlike(js) /\ Unlike(rs) /\ Named(rs)

\* Terms that are valid stay so when those without a name get one.
LEMMA IdentifiedFacts ==
    ASSUME NEW m \in Nat, NEW terms \in Seq(TermUpTo(m)), TermsValid(terms)
    PROVE  /\ Identified(terms) \in Seq(TermUpTo(m))
           /\ TermsValid(Identified(terms)) /\ Named(Identified(terms))
           /\ Named(terms) => Identified(terms) = terms
<1> DEFINE name(i) == FreeID(ID("legacy", i - 1), Ids(terms))
           given == Identified(terms)
<1>1. IsFiniteSet(Ids(terms))
  BY IdsFinite
<1>2. \A i \in 1 .. Len(terms) : terms[i] \in TermUpTo(m) /\ terms[i].id \in Ids(terms)
  BY DEF Ids, ToSet
<1>3. ASSUME NEW i \in 1 .. Len(terms)
      PROVE  /\ name(i) \notin Ids(terms) /\ name(i) \in NameUpTo(m) /\ name(i) # NoID
             /\ name(i)[2] = i - 1
  <2>1. i - 1 \in Nat /\ "legacy" \in Kind
    BY DEF Kind
  <2>2. PICK id : id = ID("legacy", i - 1)
    OBVIOUS
  <2>3. id \in NameUpTo(m) /\ id # NoID /\ id[2] = i - 1
    BY <2>1, <2>2, IDFacts DEF ID
  <2> QED BY <1>1, <2>2, <2>3, FreeIDFacts
<1> HIDE DEF name
<1>4. given = [i \in 1 .. Len(terms) |-> IF terms[i].id # NoID THEN terms[i]
                                         ELSE [terms[i] EXCEPT !.id = name(i)]]
  BY DEF Identified, Ids, name
<1> HIDE DEF given
<1>5. ASSUME NEW i \in 1 .. Len(terms)
      PROVE  /\ given[i] \in TermUpTo(m) /\ given[i].source = terms[i].source
             /\ given[i].id = IF terms[i].id # NoID THEN terms[i].id ELSE name(i)
             /\ given[i].id # NoID
  BY <1>2, <1>3, <1>4 DEF TermUpTo
<1>6. given \in Seq(TermUpTo(m)) /\ DOMAIN given = 1 .. Len(terms)
  <2>1. given \in [1 .. Len(terms) -> TermUpTo(m)]
    BY <1>4, <1>5
  <2> QED BY <2>1, Listed
<1>7. ASSUME NEW i \in 1 .. Len(terms), NEW k \in 1 .. Len(terms), i # k
      PROVE  given[i].source # given[k].source /\ given[i].id # given[k].id
  <2>1. /\ terms[i].source # terms[k].source
        /\ terms[i].id # terms[k].id \/ terms[i].id = NoID
    BY <1>7 DEF TermsValid
  <2>2. name(i) # name(k)
    BY <1>3, <1>7
  <2> QED BY <1>2, <1>3, <1>5, <2>1, <2>2
<1>8. TermsValid(given) /\ Named(given)
  BY <1>5, <1>6, <1>7 DEF TermsValid, Named
<1>9. ASSUME Named(terms) PROVE given = terms
  BY <1>4, <1>9 DEF Named
<1> QED BY <1>6, <1>8, <1>9 DEF given

\* A task that can be read is whole afterwards, and one that is whole is not changed.
LEMMA RestoredFacts ==
    ASSUME NEW m \in Nat, NEW raw \in RawUpTo(m)
    PROVE  /\ \A v : Readable(raw, v) =>
                 /\ Restored(raw) \in RawUpTo(m) /\ Whole(Restored(raw))
                 /\ Restored(raw).id = raw.id /\ Restored(raw).content = raw.content
           /\ Whole(raw) => Readable(raw, 3) /\ Restored(raw) = raw
<1>1. raw.terms \in Seq(TermUpTo(m))
  BY DEF RawUpTo
<1>2. ASSUME NEW v, Readable(raw, v)
      PROVE  /\ Restored(raw) \in RawUpTo(m) /\ Whole(Restored(raw))
             /\ Restored(raw).id = raw.id /\ Restored(raw).content = raw.content
  <2>1. PICK t : t = Identified(raw.terms)
    OBVIOUS
  <2>2. t \in Seq(TermUpTo(m)) /\ TermsValid(t) /\ Named(t)
    BY <1>1, <1>2, <2>1, IdentifiedFacts DEF Readable
  <2>3. Restored(raw) = [raw EXCEPT !.form = "new", !.hurt = "no", !.terms = t]
    BY <2>1 DEF Restored
  <2> QED BY <1>2, <2>2, <2>3 DEF RawUpTo, Whole, Readable
<1>3. ASSUME Whole(raw) PROVE Readable(raw, 3) /\ Restored(raw) = raw
  <2>1. Identified(raw.terms) = raw.terms
    BY <1>1, <1>3, IdentifiedFacts DEF Whole
  <2> QED BY <1>3, <2>1 DEF Whole, Readable, Restored, RawUpTo
<1> QED BY <1>2, <1>3

-----------------------------------------------------------------------------
(* Lists filtered.                                                         *)

\* What is left stands where it stood in the list, in the order it had.
LEMMA OnlyFacts ==
    ASSUME NEW S, NEW s \in Seq(S), NEW keep
    PROVE  \E at \in [1 .. Len(Only(s, keep)) -> 1 .. Len(s)] :
              /\ Only(s, keep) \in Seq(S)
              /\ \A k \in 1 .. Len(Only(s, keep)) :
                    Only(s, keep)[k] = s[at[k]] /\ s[at[k]] \in keep
              /\ \A j, k \in 1 .. Len(Only(s, keep)) : j < k => at[j] < at[k]
              /\ \A i \in 1 .. Len(s) :
                    s[i] \in keep => \E k \in 1 .. Len(Only(s, keep)) : at[k] = i
<1>0. PICK n \in Nat : n = Len(s)
  OBVIOUS
<1>1. PICK f : /\ Only(s, keep) = f[n] /\ f[0] = <<>>
               /\ \A i \in 1 .. n :
                     f[i] = IF s[i] \in keep THEN Append(f[i - 1], s[i]) ELSE f[i - 1]
  <2>1. PICK f : Filters(f, s, keep)
    BY OnlyUnfolds
  <2> QED BY <2>1, <1>0 DEF Filters
<1> DEFINE Placed(w, i, at) ==
              /\ at \in [1 .. Len(w) -> 1 .. i]
              /\ \A k \in 1 .. Len(w) : w[k] = s[at[k]] /\ s[at[k]] \in keep
              /\ \A j, k \in 1 .. Len(w) : j < k => at[j] < at[k]
              /\ \A j \in 1 .. i : s[j] \in keep => \E k \in 1 .. Len(w) : at[k] = j
<1> HIDE DEF Placed
<1>2. PICK W : W = [i \in 0 .. n |-> {w \in Seq(S) : \E at : Placed(w, i, at)}]
  OBVIOUS
<1>3. f[0] \in W[0]
  <2>1. <<>> \in Seq(S) /\ Len(<<>>) = 0
    OBVIOUS
  <2>2. PICK at : at = [k \in 1 .. 0 |-> 1]
    OBVIOUS
  <2>3. at \in [1 .. 0 -> 1 .. 0]
    BY <2>2
  <2>4. Placed(<<>>, 0, at)
    BY <2>1, <2>3 DEF Placed
  <2> QED BY <1>1, <1>2, <2>1, <2>4
<1>4. ASSUME NEW i \in 1 .. n, f[i - 1] \in W[i - 1] PROVE f[i] \in W[i]
  <2>0. i \in 0 .. n /\ i - 1 \in 0 .. n /\ s[i] \in S
    BY <1>0
  <2>1. PICK w : w = f[i - 1]
    OBVIOUS
  <2>2. w \in Seq(S) /\ \E at : Placed(w, i - 1, at)
    BY <1>2, <1>4, <2>0, <2>1
  <2>3. PICK at : Placed(w, i - 1, at)
    BY <2>2
  <2>4. \A k \in 1 .. Len(w) : at[k] \in 1 .. i - 1 /\ at[k] \in 1 .. i /\ at[k] < i
    BY <2>3 DEF Placed
  <2>5. CASE s[i] \notin keep
    <3>1. at \in [1 .. Len(w) -> 1 .. i]
      BY <2>3, <2>4 DEF Placed
    <3>2. \A j \in 1 .. i : s[j] \in keep => j \in 1 .. i - 1
      BY <2>5
    <3>3. Placed(w, i, at)
      BY <2>3, <3>1, <3>2 DEF Placed
    <3>4. f[i] = w
      BY <1>1, <2>1, <2>5
    <3> QED BY <1>2, <2>0, <2>2, <3>3, <3>4
  <2>6. CASE s[i] \in keep
    <3>1. PICK u : u = Append(w, s[i])
      OBVIOUS
    <3>2. PICK l \in Nat : l = Len(w)
      BY <2>2
    <3>3. /\ u \in Seq(S) /\ Len(u) = l + 1 /\ u[l + 1] = s[i]
          /\ \A k \in 1 .. l : u[k] = w[k]
      BY <2>0, <2>2, <3>1, <3>2, AppendProperties
    <3>4. PICK to : to = [k \in 1 .. l + 1 |-> IF k = l + 1 THEN i ELSE at[k]]
      OBVIOUS
    <3>5. to[l + 1] = i /\ \A k \in 1 .. l : to[k] = at[k]
      BY <3>2, <3>4
    <3>6. \A k \in 1 .. l + 1 : k = l + 1 \/ k \in 1 .. l
      BY <3>2
    <3>7. \A k \in 1 .. l + 1 : to[k] \in 1 .. i
      BY <2>4, <3>2, <3>5, <3>6
    <3>8. to \in [1 .. Len(u) -> 1 .. i]
      BY <3>3, <3>4, <3>7
    <3>9. \A k \in 1 .. Len(u) : u[k] = s[to[k]] /\ s[to[k]] \in keep
      BY <2>3, <2>6, <3>2, <3>3, <3>5, <3>6 DEF Placed
    <3>10. \A j, k \in 1 .. Len(u) : j < k => to[j] < to[k]
      <4> SUFFICES ASSUME NEW j \in 1 .. Len(u), NEW k \in 1 .. Len(u), j < k PROVE to[j] < to[k]
        OBVIOUS
      <4>1. j \in 1 .. l
        BY <3>2, <3>3, <3>6
      <4>2. CASE k = l + 1
        BY <4>1, <4>2, <2>4, <3>2, <3>5
      <4>3. CASE k \in 1 .. l
        BY <4>1, <4>3, <2>3, <3>2, <3>5 DEF Placed
      <4> QED BY <4>2, <4>3, <3>3, <3>6
    <3>11. \A j \in 1 .. i : s[j] \in keep => \E k \in 1 .. Len(u) : to[k] = j
      <4> SUFFICES ASSUME NEW j \in 1 .. i, s[j] \in keep PROVE \E k \in 1 .. Len(u) : to[k] = j
        OBVIOUS
      <4>1. CASE j = i
        <5>1. l + 1 \in 1 .. Len(u)
          BY <3>2, <3>3
        <5> QED BY <4>1, <5>1, <3>5
      <4>2. CASE j # i
        <5>1. j \in 1 .. i - 1
          BY <4>2
        <5>2. PICK k \in 1 .. Len(w) : at[k] = j
          BY <5>1, <2>3 DEF Placed
        <5>3. k \in 1 .. l /\ k \in 1 .. Len(u)
          BY <3>2, <3>3
        <5> QED BY <5>2, <5>3, <3>5
      <4> QED BY <4>1, <4>2
    <3>12. Placed(u, i, to)
      BY <3>8, <3>9, <3>10, <3>11 DEF Placed
    <3>13. f[i] = u
      BY <1>1, <2>1, <2>6, <3>1
    <3> QED BY <1>2, <2>0, <3>3, <3>12, <3>13
  <2> QED BY <2>5, <2>6
<1>5. f[n] \in W[n] /\ n \in 0 .. n
  <2>1. \A i \in 1 .. n : f[i - 1] \in W[i - 1] => f[i] \in W[i]
    BY <1>4
  <2>2. \A i \in 0 .. n : f[i] \in W[i]
    BY <1>3, <2>1, Along
  <2> QED BY <2>2
<1>6. PICK w : w = Only(s, keep)
  OBVIOUS
<1>7. w \in Seq(S) /\ \E at : Placed(w, n, at)
  BY <1>1, <1>2, <1>5, <1>6
<1>8. PICK at : Placed(w, n, at)
  BY <1>7
<1>9. /\ at \in [1 .. Len(w) -> 1 .. Len(s)]
      /\ \A k \in 1 .. Len(w) : w[k] = s[at[k]] /\ s[at[k]] \in keep
      /\ \A j, k \in 1 .. Len(w) : j < k => at[j] < at[k]
      /\ \A j \in 1 .. Len(s) : s[j] \in keep => \E k \in 1 .. Len(w) : at[k] = j
  BY <1>0, <1>8 DEF Placed
<1> QED BY <1>6, <1>7, <1>9

LEMMA OnlyKeeps ==
    ASSUME NEW S, NEW s \in Seq(S), NEW keep
    PROVE  /\ Only(s, keep) \in Seq(S) /\ Len(Only(s, keep)) <= Len(s)
           /\ ToSet(Only(s, keep)) = ToSet(s) \cap keep
           /\ Unlike(s) => Unlike(Only(s, keep))
           /\ Named(s) => Named(Only(s, keep))
           /\ TermsValid(s) => TermsValid(Only(s, keep))
<1>1. PICK o : o = Only(s, keep)
  OBVIOUS
<1>2. /\ o \in Seq(S)
      /\ \E at \in [1 .. Len(o) -> 1 .. Len(s)] :
            /\ \A k \in 1 .. Len(o) : o[k] = s[at[k]] /\ s[at[k]] \in keep
            /\ \A j, k \in 1 .. Len(o) : j < k => at[j] < at[k]
            /\ \A i \in 1 .. Len(s) : s[i] \in keep => \E k \in 1 .. Len(o) : at[k] = i
  BY <1>1, OnlyFacts
<1>3. PICK at \in [1 .. Len(o) -> 1 .. Len(s)] :
            /\ \A k \in 1 .. Len(o) : o[k] = s[at[k]] /\ s[at[k]] \in keep
            /\ \A j, k \in 1 .. Len(o) : j < k => at[j] < at[k]
            /\ \A i \in 1 .. Len(s) : s[i] \in keep => \E k \in 1 .. Len(o) : at[k] = i
  BY <1>2
<1>4. DOMAIN o = 1 .. Len(o) /\ DOMAIN s = 1 .. Len(s) /\ Len(o) \in Nat /\ Len(s) \in Nat
  BY <1>2
<1>5. \A j, k \in 1 .. Len(o) : j # k => at[j] # at[k]
  <2> SUFFICES ASSUME NEW j \in 1 .. Len(o), NEW k \in 1 .. Len(o), j # k
               PROVE  at[j] # at[k]
    OBVIOUS
  <2>1. at[j] \in Int /\ at[k] \in Int
    BY <1>3, <1>4
  <2>2. j < k \/ k < j
    BY <1>4
  <2> QED BY <1>3, <2>1, <2>2
<1>6. Len(o) <= Len(s)
  <2>1. at \in Injection(1 .. Len(o), 1 .. Len(s))
    BY <1>5 DEF Injection, IsInjective
  <2>2. /\ IsFiniteSet(1 .. Len(s)) /\ Cardinality(1 .. Len(s)) = Len(s)
        /\ Cardinality(1 .. Len(o)) = Len(o)
    <3>1. \A n \in Nat : IsFiniteSet(1 .. n) /\ Cardinality(1 .. n) = n
      BY FS_Interval
    <3> QED BY <1>4, <3>1
  <2>3. Cardinality(1 .. Len(o)) <= Cardinality(1 .. Len(s))
    BY <2>1, <2>2, FS_Injection
  <2> QED BY <2>2, <2>3
<1>7. ToSet(o) = ToSet(s) \cap keep
  <2>1. ASSUME NEW e \in ToSet(o) PROVE e \in ToSet(s) \cap keep
    BY <1>3, <1>4 DEF ToSet
  <2>2. ASSUME NEW e \in ToSet(s), e \in keep PROVE e \in ToSet(o)
    <3>1. PICK i \in 1 .. Len(s) : s[i] = e
      BY <1>4 DEF ToSet
    <3>2. PICK k \in 1 .. Len(o) : at[k] = i
      BY <1>3, <2>2, <3>1
    <3> QED BY <1>3, <1>4, <3>1, <3>2 DEF ToSet
  <2> QED BY <2>1, <2>2
<1>8. Unlike(s) => Unlike(o)
  BY <1>3, <1>4, <1>5 DEF Unlike
<1>9. Named(s) => Named(o)
  BY <1>3, <1>4 DEF Named
<1>10. TermsValid(s) => TermsValid(o)
  BY <1>3, <1>4, <1>5 DEF TermsValid
<1> QED BY <1>1, <1>2, <1>6, <1>7, <1>8, <1>9, <1>10

\* One element more.
LEMMA Appended ==
    ASSUME NEW S, NEW s \in Seq(S), NEW e \in S
    PROVE  /\ Append(s, e) \in Seq(S) /\ Len(Append(s, e)) = Len(s) + 1
           /\ ToSet(Append(s, e)) = ToSet(s) \cup {e}
           /\ Unlike(s) /\ e.id \notin Ids(s) => Unlike(Append(s, e))
           /\ Named(s) /\ e.id # NoID => Named(Append(s, e))
<1>1. PICK u : u = Append(s, e)
  OBVIOUS
<1>2. PICK n \in Nat : n = Len(s)
  OBVIOUS
<1>3. /\ u \in Seq(S) /\ Len(u) = n + 1 /\ u[n + 1] = e /\ \A i \in 1 .. n : u[i] = s[i]
  BY <1>1, <1>2, AppendProperties
<1>4. /\ DOMAIN s = 1 .. n /\ DOMAIN u = 1 .. n + 1
      /\ \A i \in 1 .. n + 1 : i \in 1 .. n \/ i = n + 1
      /\ \A i \in 1 .. n : i \in 1 .. n + 1
      /\ n + 1 \in 1 .. n + 1
  BY <1>2, <1>3
<1>5. ToSet(u) = ToSet(s) \cup {e}
  <2>1. ASSUME NEW x \in ToSet(u) PROVE x \in ToSet(s) \cup {e}
    BY <1>3, <1>4 DEF ToSet
  <2>2. ASSUME NEW x \in ToSet(s) PROVE x \in ToSet(u)
    BY <1>3, <1>4 DEF ToSet
  <2>3. e \in ToSet(u)
    BY <1>3, <1>4 DEF ToSet
  <2> QED BY <2>1, <2>2, <2>3
<1>6. \A i \in 1 .. n : s[i].id \in Ids(s)
  BY <1>4 DEF Ids, ToSet
<1>7. ASSUME Unlike(s), e.id \notin Ids(s) PROVE Unlike(u)
  BY <1>3, <1>4, <1>6, <1>7 DEF Unlike
<1>8. ASSUME Named(s), e.id # NoID PROVE Named(u)
  BY <1>3, <1>4, <1>8 DEF Named
<1> QED BY <1>1, <1>2, <1>3, <1>5, <1>7, <1>8

LEMMA QuarantineFacts ==
    ASSUME NEW m \in Nat, NEW rs \in Seq(RecordUpTo(m)), NEW id \in NameUpTo(m),
           NEW raw \in RawUpTo(m)
    PROVE  \E r \in RecordUpTo(m) :
              /\ Quarantine(rs, id, raw) = Append(rs, r)
              /\ r.data = raw /\ r.id # NoID /\ r.id \notin Ids(rs)
              /\ id # NoID /\ id \notin Ids(rs) => r.id = id
<1>1. PICK want : want = IF id = NoID THEN ID("recovery", Len(rs)) ELSE id
  OBVIOUS
<1>2. want \in NameUpTo(m) /\ want # NoID
  <2>1. "recovery" \in Kind /\ Len(rs) \in Nat
    BY DEF Kind
  <2> QED BY <1>1, <2>1, IDFacts
<1>3. PICK name : name = FreeID(want, Ids(rs))
  OBVIOUS
<1>4. /\ name \notin Ids(rs) /\ name \in NameUpTo(m) /\ name # NoID
      /\ want \notin Ids(rs) => name = want
  BY <1>2, <1>3, IdsFinite, FreeIDFacts
<1>5. PICK r : r = Record(name, raw)
  OBVIOUS
<1>6. r \in RecordUpTo(m) /\ r.id = name /\ r.data = raw
  BY <1>4, <1>5 DEF Record, RecordUpTo
<1>7. Quarantine(rs, id, raw) = Append(rs, r)
  BY <1>1, <1>3, <1>5 DEF Quarantine
<1> QED BY <1>1, <1>4, <1>6, <1>7

-----------------------------------------------------------------------------
(* Reading a workspace or a backup.                                        *)

\* One more task, or one more record, with this content.
LEMMA OneMoreJob ==
    ASSUME NEW m \in Nat, NEW js \in Seq(RawUpTo(m)), NEW rs \in Seq(RecordUpTo(m)),
           Clean(js, rs), NEW j \in RawUpTo(m), Whole(j), j.id \notin Ids(js)
    PROVE  /\ Append(js, j) \in Seq(RawUpTo(m)) /\ Len(Append(js, j)) = Len(js) + 1
           /\ Clean(Append(js, j), rs)
           /\ Contents(Append(js, j), rs) = Contents(js, rs) \cup {j.content}
<1>1. PICK new : new = Append(js, j)
  OBVIOUS
<1>2. /\ new \in Seq(RawUpTo(m)) /\ Len(new) = Len(js) + 1
      /\ ToSet(new) = ToSet(js) \cup {j} /\ Unlike(new)
  BY <1>1, Appended DEF Clean
<1>3. \A i \in DOMAIN new : Whole(new[i])
  BY <1>2 DEF ToSet, Clean
<1>4. Clean(new, rs)
  BY <1>2, <1>3 DEF Clean
<1>5. ASSUME NEW c
      PROVE  c \in Contents(new, rs) <=> c \in Contents(js, rs) \cup {j.content}
  BY <1>2 DEF Contents
<1> QED BY <1>1, <1>2, <1>4, <1>5

LEMMA OneMoreRecord ==
    ASSUME NEW m \in Nat, NEW js \in Seq(RawUpTo(m)), NEW rs \in Seq(RecordUpTo(m)),
           Clean(js, rs), NEW id \in NameUpTo(m), NEW raw \in RawUpTo(m)
    PROVE  \E new \in Seq(RecordUpTo(m)) :
              /\ new = Quarantine(rs, id, raw) /\ Len(new) = Len(rs) + 1
              /\ Clean(js, new)
              /\ Contents(js, new) = Contents(js, rs) \cup {raw.content}
<1>1. PICK r \in RecordUpTo(m) :
              /\ Quarantine(rs, id, raw) = Append(rs, r)
              /\ r.data = raw /\ r.id # NoID /\ r.id \notin Ids(rs)
  BY QuarantineFacts
<1>2. PICK new : new = Append(rs, r)
  OBVIOUS
<1>3. /\ new \in Seq(RecordUpTo(m)) /\ Len(new) = Len(rs) + 1
      /\ ToSet(new) = ToSet(rs) \cup {r} /\ Unlike(new) /\ Named(new)
  BY <1>1, <1>2, Appended DEF Clean
<1>4. Clean(js, new)
  BY <1>3 DEF Clean
<1>5. ASSUME NEW c
      PROVE  c \in Contents(js, new) <=> c \in Contents(js, rs) \cup {raw.content}
  BY <1>1, <1>3 DEF Contents
<1> QED BY <1>1, <1>2, <1>3, <1>4, <1>5, ZenonT(20)

\* What was read has so many tasks and records, with these contents.
Sound(w, m, n, contents) ==
    /\ w \in Work(m) /\ Clean(w.jobs, w.recovery)
    /\ Len(w.jobs) \in Nat /\ Len(w.recovery) \in Nat /\ Held(w) = n
    /\ Contents(w.jobs, w.recovery) = contents

LEMMA TakeKeeps ==
    ASSUME NEW m \in Nat, NEW n \in Nat, NEW cs, NEW w, Sound(w, m, n, cs),
           NEW raw \in RawUpTo(m), NEW v
    PROVE  Sound(Take(w, raw, v), m, n + 1, cs \cup {raw.content})
<1>1. PICK js \in Seq(RawUpTo(m)) : js = w.jobs
  BY DEF Sound, Work
<1>2. PICK rs \in Seq(RecordUpTo(m)) : rs = w.recovery
  BY DEF Sound, Work
<1>3. Clean(js, rs) /\ Contents(js, rs) = cs /\ Len(js) + Len(rs) = n
      /\ Len(js) \in Nat /\ Len(rs) \in Nat
  BY <1>1, <1>2 DEF Sound, Held
<1>4. CASE Readable(raw, v) /\ raw.id \notin Ids(js)
  <2>1. PICK j : j = Restored(raw)
    OBVIOUS
  <2>2. j \in RawUpTo(m) /\ Whole(j) /\ j.id \notin Ids(js) /\ j.content = raw.content
    BY <1>4, <2>1, RestoredFacts
  <2>3. PICK new : new = Append(js, j)
    OBVIOUS
  <2>4. /\ new \in Seq(RawUpTo(m)) /\ Len(new) = Len(js) + 1 /\ Clean(new, rs)
        /\ Contents(new, rs) = cs \cup {raw.content}
    BY <1>3, <2>2, <2>3, OneMoreJob
  <2>5. Take(w, raw, v) = [jobs |-> new, recovery |-> rs]
    BY <1>1, <1>2, <1>4, <2>1, <2>3 DEF Take
  <2>6. Len(new) \in Nat /\ Len(new) + Len(rs) = n + 1
    BY <1>3, <2>4
  <2>7. PICK u : u = Take(w, raw, v)
    OBVIOUS
  <2>8. u \in Work(m) /\ u.jobs = new /\ u.recovery = rs
    BY <2>4, <2>5, <2>7 DEF Work
  <2>9. Sound(u, m, n + 1, cs \cup {raw.content})
    BY <1>3, <2>4, <2>6, <2>8 DEF Sound, Held
  <2> QED BY <2>7, <2>9
<1>5. CASE ~(Readable(raw, v) /\ raw.id \notin Ids(js))
  <2>1. NoID \in NameUpTo(m)
    BY DEF NameUpTo
  <2>2. PICK new \in Seq(RecordUpTo(m)) :
              /\ new = Quarantine(rs, NoID, raw) /\ Len(new) = Len(rs) + 1 /\ Clean(js, new)
              /\ Contents(js, new) = Contents(js, rs) \cup {raw.content}
    BY <1>3, <2>1, OneMoreRecord
  <2>3. Take(w, raw, v) = [jobs |-> js, recovery |-> new]
    BY <1>1, <1>2, <1>5, <2>2 DEF Take
  <2>4. Len(new) \in Nat /\ Len(js) + Len(new) = n + 1
    BY <1>3, <2>2
  <2> QED BY <1>3, <2>2, <2>3, <2>4 DEF Sound, Work, Held
<1> QED BY <1>4, <1>5

LEMMA AgainKeeps ==
    ASSUME NEW m \in Nat, NEW n \in Nat, NEW cs, NEW w, Sound(w, m, n, cs),
           NEW r \in RecordUpTo(m)
    PROVE  Sound(Again(w, r), m, n + 1, cs \cup {r.data.content})
<1>1. PICK js \in Seq(RawUpTo(m)) : js = w.jobs
  BY DEF Sound, Work
<1>2. PICK rs \in Seq(RecordUpTo(m)) : rs = w.recovery
  BY DEF Sound, Work
<1>3. Clean(js, rs) /\ Contents(js, rs) = cs /\ Len(js) + Len(rs) = n
      /\ Len(js) \in Nat /\ Len(rs) \in Nat
  BY <1>1, <1>2 DEF Sound, Held
<1>4. r.id \in NameUpTo(m) /\ r.data \in RawUpTo(m)
  BY DEF RecordUpTo
<1>5. PICK new \in Seq(RecordUpTo(m)) :
            /\ new = Quarantine(rs, r.id, r.data) /\ Len(new) = Len(rs) + 1 /\ Clean(js, new)
            /\ Contents(js, new) = Contents(js, rs) \cup {r.data.content}
  BY <1>3, <1>4, OneMoreRecord
<1>6. Again(w, r) = [jobs |-> js, recovery |-> new]
  BY <1>1, <1>2, <1>5 DEF Again
<1>7. Len(new) \in Nat /\ Len(js) + Len(new) = n + 1
  <2>1. Len(new) = Len(rs) + 1
    BY <1>5
  <2> QED BY <1>3, <2>1, SMTT(30)
<1>8. PICK u : u = Again(w, r)
  OBVIOUS
<1>9. u \in Work(m) /\ u.jobs = js /\ u.recovery = new
  BY <1>5, <1>6, <1>8 DEF Work
<1>10. Sound(u, m, n + 1, cs \cup {r.data.content})
  BY <1>3, <1>5, <1>7, <1>9 DEF Sound, Held
<1> QED BY <1>8, <1>10

\* The contents of the first i tasks.
Seen(js, i) == {js[k].content : k \in 1 .. i}

LEMMA TakenUnfolds ==
    ASSUME NEW m \in Nat, NEW js \in Seq(RawUpTo(m)), NEW v
    PROVE  \E f : /\ Taken(js, v) = f[Len(js)] /\ f[0] = Nothing
                  /\ \A i \in 1 .. Len(js) : f[i] = Take(f[i - 1], js[i], v)
                  /\ \A i \in 0 .. Len(js) : Sound(f[i], m, i, Seen(js, i))
<1>0. PICK n \in Nat : n = Len(js)
  OBVIOUS
<1> DEFINE F(f) == [i \in 0 .. n |-> IF i = 0 THEN Nothing ELSE Take(f[i - 1], js[i], v)]
           taken == CHOOSE f : f = F(f)
<1>1. PICK W : W = [i \in 0 .. n |-> {w \in Work(m) : Sound(w, m, i, Seen(js, i))}]
  OBVIOUS
<1>2. PICK step : step = [i \in 1 .. n |-> [w \in Work(m) |-> Take(w, js[i], v)]]
  OBVIOUS
<1>3. \A i \in 1 .. n : /\ i \in 0 .. n /\ i - 1 \in 0 .. n /\ i # 0 /\ i - 1 \in Nat
                        /\ (i - 1) + 1 = i /\ js[i] \in RawUpTo(m)
  BY <1>0
<1>4. Sound(Nothing, m, 0, Seen(js, 0))
  <2>1. Nothing.jobs = <<>> /\ Nothing.recovery = <<>> /\ Nothing \in Work(m)
    BY EmptySeq DEF Nothing, Work
  <2>2. Clean(<<>>, <<>>)
    BY DEF Clean, Unlike, Named
  <2>3. Contents(<<>>, <<>>) = {} /\ Seen(js, 0) = {}
    BY DEF Contents, ToSet, Seen
  <2>4. Contents(<<>>, <<>>) = Seen(js, 0)
    BY <2>3
  <2>5. Len(<<>>) = 0 /\ Len(<<>>) \in Nat
    OBVIOUS
  <2>6. Held(Nothing) = 0
    BY <2>1, <2>5 DEF Held
  <2> QED BY <2>1, <2>2, <2>4, <2>5, <2>6 DEF Sound
<1>5. ASSUME NEW i \in 1 .. n PROVE Seen(js, i) = Seen(js, i - 1) \cup {js[i].content}
  <2>1. \A k \in 1 .. i : k \in 1 .. i - 1 \/ k = i
    OBVIOUS
  <2>2. \A k \in 1 .. i - 1 : k \in 1 .. i
    OBVIOUS
  <2>3. i \in 1 .. i
    OBVIOUS
  <2>4. ASSUME NEW c PROVE c \in Seen(js, i) <=> c \in Seen(js, i - 1) \cup {js[i].content}
    BY <2>1, <2>2, <2>3 DEF Seen
  <2> QED BY <2>4
<1>6. ASSUME NEW i \in 1 .. n, NEW w, Sound(w, m, i - 1, Seen(js, i - 1))
      PROVE  Sound(Take(w, js[i], v), m, i, Seen(js, i))
  <2>1. Sound(Take(w, js[i], v), m, (i - 1) + 1, Seen(js, i - 1) \cup {js[i].content})
    BY <1>3, <1>6, TakeKeeps
  <2> QED BY <1>3, <1>5, <2>1
<1>7. \A w : \A i \in 0 .. n : w \in W[i] <=> Sound(w, m, i, Seen(js, i))
  BY <1>1 DEF Sound
<1>8. \A i \in 1 .. n : \A w \in W[i - 1] : step[i][w] \in W[i]
  <2> SUFFICES ASSUME NEW i \in 1 .. n, NEW w \in W[i - 1] PROVE step[i][w] \in W[i]
    OBVIOUS
  <2>1. Sound(w, m, i - 1, Seen(js, i - 1)) /\ w \in Work(m)
    BY <1>3, <1>7 DEF Sound
  <2>2. step[i][w] = Take(w, js[i], v)
    BY <1>2, <2>1
  <2> QED BY <1>3, <1>6, <1>7, <2>1, <2>2
<1>9. PICK b \in W[0] : b = Nothing
  BY <1>4, <1>7
<1>10. PICK g : Goes(g, n, b, step) /\ \A i \in 0 .. n : g[i] \in W[i]
  BY <1>8, Recursion
<1>11. g = F(g)
  <2>1. /\ g = [i \in 0 .. n |-> g[i]] /\ g[0] = Nothing
        /\ \A i \in 0 .. n : Sound(g[i], m, i, Seen(js, i))
        /\ \A i \in 1 .. n : g[i] = step[i][g[i - 1]]
    BY <1>7, <1>9, <1>10 DEF Goes
  <2>2. \A i \in 1 .. n : g[i] = Take(g[i - 1], js[i], v)
    BY <1>2, <1>3, <2>1 DEF Sound
  <2>3. \A i \in 0 .. n : g[i] = IF i = 0 THEN Nothing ELSE Take(g[i - 1], js[i], v)
    <3> SUFFICES ASSUME NEW i \in 0 .. n
                 PROVE  g[i] = IF i = 0 THEN Nothing ELSE Take(g[i - 1], js[i], v)
      OBVIOUS
    <3>1. CASE i = 0
      BY <3>1, <2>1
    <3>2. CASE i # 0
      BY <3>2, <2>2
    <3> QED BY <3>1, <3>2
  <2> QED BY <2>1, <2>3
<1>12. taken = F(taken)
  BY <1>11
<1>13. Taken(js, v) = taken[n]
  BY <1>0 DEF Taken
<1>14. PICK h : h = taken
  OBVIOUS
<1>15. h[0] = Nothing /\ \A i \in 1 .. n : h[i] = Take(h[i - 1], js[i], v)
  <2>1. h = F(h)
    BY <1>12, <1>14
  <2>2. \A i \in 0 .. n : h[i] = IF i = 0 THEN Nothing ELSE Take(h[i - 1], js[i], v)
    BY <2>1
  <2> QED BY <2>2
<1> HIDE DEF taken
<1>16. \A i \in 0 .. n : Sound(h[i], m, i, Seen(js, i))
  <2>1. h[0] \in W[0]
    BY <1>9, <1>15
  <2>2. ASSUME NEW i \in 1 .. n, h[i - 1] \in W[i - 1] PROVE h[i] \in W[i]
    BY <1>3, <1>6, <1>7, <1>15, <2>2
  <2>3. \A i \in 1 .. n : h[i - 1] \in W[i - 1] => h[i] \in W[i]
    BY <2>2
  <2>4. \A i \in 0 .. n : h[i] \in W[i]
    BY <2>1, <2>3, Along
  <2> QED BY <1>7, <2>4
<1> QED BY <1>0, <1>13, <1>14, <1>15, <1>16

LEMMA RestoreUnfolds ==
    ASSUME NEW m \in Nat, NEW js \in Seq(RawUpTo(m)), NEW rs \in Seq(RecordUpTo(m)), NEW v
    PROVE  \E f : /\ RestoreJobs(js, v, rs) = f[Len(rs)] /\ f[0] = Taken(js, v)
                  /\ \A i \in 1 .. Len(rs) : f[i] = Again(f[i - 1], rs[i])
                  /\ Sound(f[Len(rs)], m, Len(js) + Len(rs), Contents(js, rs))
<1>0. PICK n \in Nat : n = Len(rs)
  OBVIOUS
<1>1. PICK l \in Nat : l = Len(js)
  OBVIOUS
<1> DEFINE F(f) == [i \in 0 .. n |-> IF i = 0 THEN Taken(js, v) ELSE Again(f[i - 1], rs[i])]
           again == CHOOSE f : f = F(f)
           C(i) == {js[k].content : k \in 1 .. l} \cup {rs[k].data.content : k \in 1 .. i}
<1>2. PICK W : W = [i \in 0 .. n |-> {w \in Work(m) : Sound(w, m, l + i, C(i))}]
  OBVIOUS
<1>3. PICK step : step = [i \in 1 .. n |-> [w \in Work(m) |-> Again(w, rs[i])]]
  OBVIOUS
<1>4. \A i \in 1 .. n : /\ i \in 0 .. n /\ i - 1 \in 0 .. n /\ i # 0
                        /\ l + (i - 1) \in Nat /\ (l + (i - 1)) + 1 = l + i
                        /\ rs[i] \in RecordUpTo(m)
  BY <1>0
<1>5. Sound(Taken(js, v), m, l + 0, C(0))
  <2>1. PICK f : /\ Taken(js, v) = f[Len(js)] /\ f[0] = Nothing
                 /\ \A i \in 1 .. Len(js) : f[i] = Take(f[i - 1], js[i], v)
                 /\ \A i \in 0 .. Len(js) : Sound(f[i], m, i, Seen(js, i))
    BY TakenUnfolds
  <2>2. l \in 0 .. l /\ l + 0 = l
    OBVIOUS
  <2>3. C(0) = Seen(js, l)
    BY DEF Seen
  <2> QED BY <1>1, <2>1, <2>2, <2>3
<1>6. ASSUME NEW i \in 1 .. n PROVE C(i) = C(i - 1) \cup {rs[i].data.content}
  <2>1. \A k \in 1 .. i : k \in 1 .. i - 1 \/ k = i
    OBVIOUS
  <2>2. \A k \in 1 .. i - 1 : k \in 1 .. i
    OBVIOUS
  <2>3. i \in 1 .. i
    OBVIOUS
  <2> QED BY <2>1, <2>2, <2>3
<1>7. C(n) = Contents(js, rs)
  <2>1. DOMAIN js = 1 .. l /\ DOMAIN rs = 1 .. n
    BY <1>0, <1>1
  <2>2. ASSUME NEW c PROVE c \in C(n) <=> c \in Contents(js, rs)
    BY <2>1 DEF Contents, ToSet
  <2> QED BY <2>2
<1> HIDE DEF C
<1>8. ASSUME NEW i \in 1 .. n, NEW w, Sound(w, m, l + (i - 1), C(i - 1))
      PROVE  Sound(Again(w, rs[i]), m, l + i, C(i))
  <2>1. Sound(Again(w, rs[i]), m, (l + (i - 1)) + 1, C(i - 1) \cup {rs[i].data.content})
    BY <1>4, <1>8, AgainKeeps
  <2> QED BY <1>4, <1>6, <2>1
<1>9. \A w : \A i \in 0 .. n : w \in W[i] <=> Sound(w, m, l + i, C(i))
  BY <1>2 DEF Sound
<1>10. \A i \in 1 .. n : \A w \in W[i - 1] : step[i][w] \in W[i]
  <2> SUFFICES ASSUME NEW i \in 1 .. n, NEW w \in W[i - 1] PROVE step[i][w] \in W[i]
    OBVIOUS
  <2>1. Sound(w, m, l + (i - 1), C(i - 1)) /\ w \in Work(m)
    BY <1>4, <1>9 DEF Sound
  <2>2. step[i][w] = Again(w, rs[i])
    BY <1>3, <2>1
  <2> QED BY <1>4, <1>8, <1>9, <2>1, <2>2
<1>11. PICK b \in W[0] : b = Taken(js, v)
  BY <1>5, <1>9
<1>12. PICK g : Goes(g, n, b, step) /\ \A i \in 0 .. n : g[i] \in W[i]
  BY <1>10, Recursion
<1>13. g = F(g)
  <2>1. /\ g = [i \in 0 .. n |-> g[i]] /\ g[0] = Taken(js, v)
        /\ \A i \in 0 .. n : g[i] \in Work(m)
        /\ \A i \in 1 .. n : g[i] = step[i][g[i - 1]]
    BY <1>9, <1>11, <1>12 DEF Goes, Sound
  <2>2. \A i \in 1 .. n : g[i] = Again(g[i - 1], rs[i])
    BY <1>3, <1>4, <2>1
  <2>3. \A i \in 0 .. n : g[i] = IF i = 0 THEN Taken(js, v) ELSE Again(g[i - 1], rs[i])
    <3> SUFFICES ASSUME NEW i \in 0 .. n
                 PROVE  g[i] = IF i = 0 THEN Taken(js, v) ELSE Again(g[i - 1], rs[i])
      OBVIOUS
    <3>1. CASE i = 0
      BY <3>1, <2>1
    <3>2. CASE i # 0
      BY <3>2, <2>2
    <3> QED BY <3>1, <3>2
  <2> QED BY <2>1, <2>3
<1>14. again = F(again)
  BY <1>13
<1>15. RestoreJobs(js, v, rs) = again[n]
  BY <1>0 DEF RestoreJobs
<1>16. PICK h : h = again
  OBVIOUS
<1>17. h[0] = Taken(js, v) /\ \A i \in 1 .. n : h[i] = Again(h[i - 1], rs[i])
  <2>1. h = F(h)
    BY <1>14, <1>16
  <2>2. \A i \in 0 .. n : h[i] = IF i = 0 THEN Taken(js, v) ELSE Again(h[i - 1], rs[i])
    BY <2>1
  <2> QED BY <2>2
<1> HIDE DEF again
<1>18. Sound(h[n], m, l + n, C(n))
  <2>1. h[0] \in W[0]
    BY <1>11, <1>17
  <2>2. ASSUME NEW i \in 1 .. n, h[i - 1] \in W[i - 1] PROVE h[i] \in W[i]
    BY <1>4, <1>8, <1>9, <1>17, <2>2
  <2>3. \A i \in 1 .. n : h[i - 1] \in W[i - 1] => h[i] \in W[i]
    BY <2>2
  <2>4. \A i \in 0 .. n : h[i] \in W[i]
    BY <2>1, <2>3, Along
  <2> QED BY <1>9, <2>4
<1> QED BY <1>0, <1>1, <1>7, <1>15, <1>16, <1>17, <1>18

\* Whatever is read, its contents are kept, and what is read is clean.
LEMMA RestoreKeeps ==
    ASSUME NEW m \in Nat, NEW js \in Seq(RawUpTo(m)), NEW rs \in Seq(RecordUpTo(m)), NEW v
    PROVE  Sound(RestoreJobs(js, v, rs), m, Len(js) + Len(rs), Contents(js, rs))
BY RestoreUnfolds

LEMMA TakenBack ==
    ASSUME NEW m \in Nat, NEW js \in Seq(RawUpTo(m)), \A i \in DOMAIN js : Whole(js[i]), Unlike(js)
    PROVE  Taken(js, 3) = [jobs |-> js, recovery |-> <<>>]
<1>0. PICK n \in Nat : n = Len(js)
  OBVIOUS
<1>1. PICK f : /\ Taken(js, 3) = f[Len(js)] /\ f[0] = Nothing
               /\ \A i \in 1 .. Len(js) : f[i] = Take(f[i - 1], js[i], 3)
               /\ \A i \in 0 .. Len(js) : Sound(f[i], m, i, Seen(js, i))
  BY TakenUnfolds
<1>2. PICK W : W = [i \in 0 .. n |-> {[jobs |-> SubSeq(js, 1, i), recovery |-> <<>>]}]
  OBVIOUS
<1>3. f[0] \in W[0]
  <2>1. SubSeq(js, 1, 0) = <<>>
    BY SubSeqEmpty
  <2> QED BY <1>1, <1>2, <2>1 DEF Nothing
<1>4. ASSUME NEW i \in 1 .. n, f[i - 1] \in W[i - 1] PROVE f[i] \in W[i]
  <2>1. i \in 0 .. n /\ i - 1 \in 0 .. n /\ js[i] \in RawUpTo(m)
    BY <1>0
  <2>2. PICK s : s = SubSeq(js, 1, i - 1)
    OBVIOUS
  <2>3. f[i - 1].jobs = s /\ f[i - 1].recovery = <<>>
    BY <1>2, <1>4, <2>1, <2>2
  <2>4. Whole(js[i])
    BY <1>0 DEF Clean
  <2>5. Readable(js[i], 3) /\ Restored(js[i]) = js[i]
    BY <2>1, <2>4, RestoredFacts
  <2>6. js[i].id \notin Ids(s)
    <3>1. Len(s) = i - 1 /\ DOMAIN s = 1 .. i - 1 /\ \A k \in 1 .. i - 1 : s[k] = js[k]
      BY <1>0, <2>2
    <3>2. \A k \in 1 .. i - 1 : js[k].id # js[i].id
      BY <1>0 DEF Clean, Unlike
    <3> QED BY <3>1, <3>2 DEF Ids, ToSet
  <2>7. Append(s, js[i]) = SubSeq(js, 1, i)
    <3>1. SubSeq(js, 1, i) = s \o <<js[i]>>
      BY <1>0, <2>2, SubSeqRecursiveSecond
    <3>2. s \in Seq(RawUpTo(m))
      BY <1>0, <2>2
    <3> QED BY <2>1, <3>1, <3>2, AppendIsConcat
  <2>8. f[i] = [jobs |-> Append(s, js[i]), recovery |-> <<>>]
    BY <1>0, <1>1, <2>3, <2>5, <2>6 DEF Take
  <2> QED BY <1>2, <2>1, <2>7, <2>8
<1>5. f[n] \in W[n]
  <2>1. \A i \in 1 .. n : f[i - 1] \in W[i - 1] => f[i] \in W[i]
    BY <1>4
  <2>2. \A i \in 0 .. n : f[i] \in W[i]
    BY <1>3, <2>1, Along
  <2> QED BY <2>2
<1>6. SubSeq(js, 1, n) = js
  BY <1>0, SubSeqFull
<1>7. n \in 0 .. n
  OBVIOUS
<1>8. W[n] = {[jobs |-> SubSeq(js, 1, n), recovery |-> <<>>]}
  BY <1>2, <1>7
<1> QED BY <1>0, <1>1, <1>5, <1>6, <1>8

\* What is clean is read as it is.
LEMMA ReadBack ==
    ASSUME NEW m \in Nat, NEW js \in Seq(RawUpTo(m)), NEW rs \in Seq(RecordUpTo(m)),
           Clean(js, rs)
    PROVE  RestoreJobs(js, 3, rs) = [jobs |-> js, recovery |-> rs]
<1>1. Taken(js, 3) = [jobs |-> js, recovery |-> <<>>]
  BY TakenBack DEF Clean
<1>2. PICK n \in Nat : n = Len(rs)
  OBVIOUS
<1>3. PICK f : /\ RestoreJobs(js, 3, rs) = f[n] /\ f[0] = Taken(js, 3)
               /\ \A i \in 1 .. n : f[i] = Again(f[i - 1], rs[i])
               /\ Sound(f[n], m, Len(js) + Len(rs), Contents(js, rs))
  BY <1>2, RestoreUnfolds, ZenonT(20)
<1>4. PICK W : W = [i \in 0 .. n |-> {[jobs |-> js, recovery |-> SubSeq(rs, 1, i)]}]
  OBVIOUS
<1>5. f[0] \in W[0]
  <2>1. SubSeq(rs, 1, 0) = <<>>
    BY SubSeqEmpty
  <2>2. 0 \in 0 .. n
    OBVIOUS
  <2>3. W[0] = {[jobs |-> js, recovery |-> SubSeq(rs, 1, 0)]}
    BY <1>4, <2>2
  <2> QED BY <1>1, <1>3, <2>1, <2>3
<1>6. ASSUME NEW i \in 1 .. n, f[i - 1] \in W[i - 1] PROVE f[i] \in W[i]
  <2>1. i \in 0 .. n /\ i - 1 \in 0 .. n /\ rs[i] \in RecordUpTo(m)
    BY <1>2
  <2>2. PICK s \in Seq(RecordUpTo(m)) : s = SubSeq(rs, 1, i - 1)
    <3>1. \A k \in 1 .. i - 1 : rs[k] \in RecordUpTo(m)
      BY <1>2
    <3>2. i - 1 \in Int
      OBVIOUS
    <3>3. SubSeq(rs, 1, i - 1) \in Seq(RecordUpTo(m))
      BY <3>1, <3>2, SubSeqProperties
    <3> QED BY <3>3
  <2>3. f[i - 1].jobs = js /\ f[i - 1].recovery = s
    BY <1>4, <1>6, <2>1, <2>2
  <2>4. rs[i].id \notin Ids(s) /\ rs[i].id # NoID
    <3>1. Len(s) = i - 1 /\ DOMAIN s = 1 .. i - 1 /\ \A k \in 1 .. i - 1 : s[k] = rs[k]
      BY <1>2, <2>2
    <3>2. \A k \in 1 .. i - 1 : rs[k].id # rs[i].id
      BY <1>2 DEF Clean, Unlike
    <3> QED BY <1>2, <3>1, <3>2 DEF Ids, ToSet, Clean, Named
  <2>5. rs[i].id \in NameUpTo(m) /\ rs[i].data \in RawUpTo(m)
    BY <2>1 DEF RecordUpTo
  <2>6. PICK r \in RecordUpTo(m) :
            Quarantine(s, rs[i].id, rs[i].data) = Append(s, r)
            /\ r.data = rs[i].data /\ r.id = rs[i].id
    BY <2>4, <2>5, QuarantineFacts
  <2>7. r = rs[i]
    <3>1. r = [id |-> r.id, data |-> r.data]
      BY DEF RecordUpTo
    <3>2. rs[i] = [id |-> rs[i].id, data |-> rs[i].data]
      BY <2>1 DEF RecordUpTo
    <3> QED BY <2>6, <3>1, <3>2
  <2>8. Append(s, rs[i]) = SubSeq(rs, 1, i)
    <3>1. SubSeq(rs, 1, i) = s \o <<rs[i]>>
      BY <1>2, <2>2, SubSeqRecursiveSecond
    <3> QED BY <2>1, <3>1, AppendIsConcat
  <2>9. f[i] = [jobs |-> js, recovery |-> Append(s, rs[i])]
    BY <1>3, <2>3, <2>6, <2>7 DEF Again
  <2> QED BY <1>4, <2>1, <2>8, <2>9
<1>7. f[n] \in W[n]
  <2>1. \A i \in 1 .. n : f[i - 1] \in W[i - 1] => f[i] \in W[i]
    BY <1>6
  <2>2. \A i \in 0 .. n : f[i] \in W[i]
    BY <1>5, <2>1, Along
  <2> QED BY <2>2
<1>8. SubSeq(rs, 1, n) = rs
  BY <1>2, SubSeqFull
<1> QED BY <1>3, <1>4, <1>7, <1>8

-----------------------------------------------------------------------------
(* The invariant.                                                          *)

TypeOK ==
    /\ version \in {1, 3} /\ made \in Nat
    /\ jobs \in Seq(RawUpTo(made)) /\ recovery \in Seq(RecordUpTo(made))
    /\ drafts \in Seq(DraftUpTo(made)) /\ file \in Work(made)

\* What was shown was named before, and every name was shown for one content.
Shown ==
    /\ \A a \in told : a[1] \in NameUpTo(made)
    /\ \A a, b \in told : a[1] = b[1] => a = b
    /\ \A r \in ToSet(Loaded.recovery) : <<r.id, r.data.content>> \in told

IInv ==
    /\ TypeOK /\ Shown
    /\ Len(jobs) + Len(recovery) <= Limit
    /\ owned \subseteq Contents(jobs, recovery)

\* Names that have been made stay names.
LEMMA MoreNames ==
    ASSUME NEW m \in Nat, NEW n \in Nat, m <= n
    PROVE  /\ NameUpTo(m) \subseteq NameUpTo(n) /\ TermUpTo(m) \subseteq TermUpTo(n)
           /\ Seq(TermUpTo(m)) \subseteq Seq(TermUpTo(n))
           /\ Seq(RawUpTo(m)) \subseteq Seq(RawUpTo(n))
           /\ Seq(RecordUpTo(m)) \subseteq Seq(RecordUpTo(n))
           /\ Seq(DraftUpTo(m)) \subseteq Seq(DraftUpTo(n)) /\ Work(m) \subseteq Work(n)
<1>1. NameUpTo(m) \subseteq NameUpTo(n)
  BY DEF NameUpTo
<1>2. TermUpTo(m) \subseteq TermUpTo(n)
  BY <1>1 DEF TermUpTo
<1>3. Seq(TermUpTo(m)) \subseteq Seq(TermUpTo(n))
  BY <1>2, SeqMonotonic
<1>4. Said(m) \subseteq Said(n)
  BY <1>1 DEF Said
<1>5. RawUpTo(m) \subseteq RawUpTo(n)
  BY <1>1, <1>3, <1>4 DEF RawUpTo
<1>6. RecordUpTo(m) \subseteq RecordUpTo(n)
  BY <1>1, <1>5 DEF RecordUpTo
<1>7. DraftUpTo(m) \subseteq DraftUpTo(n)
  BY <1>1 DEF DraftUpTo
<1>8. Seq(RawUpTo(m)) \subseteq Seq(RawUpTo(n)) /\ Seq(RecordUpTo(m)) \subseteq Seq(RecordUpTo(n))
  BY <1>5, <1>6, SeqMonotonic
<1>9. Seq(DraftUpTo(m)) \subseteq Seq(DraftUpTo(n))
  BY <1>7, SeqMonotonic
<1>10. Work(m) \subseteq Work(n)
  BY <1>8 DEF Work
<1> QED BY <1>1, <1>2, <1>3, <1>8, <1>9, <1>10

LEMMA LoadedFacts ==
    ASSUME TypeOK
    PROVE  /\ Loaded.jobs \in Seq(RawUpTo(made)) /\ Loaded.recovery \in Seq(RecordUpTo(made))
           /\ Clean(Loaded.jobs, Loaded.recovery)
           /\ Len(Loaded.jobs) \in Nat /\ Len(Loaded.recovery) \in Nat
           /\ Len(Loaded.jobs) + Len(Loaded.recovery) = Len(jobs) + Len(recovery)
           /\ Contents(Loaded.jobs, Loaded.recovery) = Contents(jobs, recovery)
<1>1. Sound(RestoreJobs(jobs, version, recovery), made, Len(jobs) + Len(recovery),
            Contents(jobs, recovery))
  BY RestoreKeeps DEF TypeOK
<1>2. Sound(Loaded, made, Len(jobs) + Len(recovery), Contents(jobs, recovery))
  BY <1>1 DEF Loaded
<1> QED BY <1>2 DEF Sound, Work, Held

Telling == told' = told \cup {<<r.id, r.data.content>> : r \in ToSet(Loaded'.recovery)}

\* A step that stores nothing.
LEMMA ReadKeeps ==
    ASSUME IInv, UNCHANGED stored, made' = made, owned' = owned, Telling,
           drafts' \in Seq(DraftUpTo(made)), file' \in Work(made)
    PROVE  IInv' /\ Loaded' = Loaded
<1>1. version' = version /\ jobs' = jobs /\ recovery' = recovery
  BY DEF stored
<1>2. Loaded' = Loaded
  BY <1>1 DEF Loaded
<1>3. told' = told
  BY <1>2 DEF Telling, IInv, Shown
<1>4. TypeOK'
  BY <1>1 DEF TypeOK, IInv
<1>5. Shown'
  BY <1>2, <1>3 DEF Shown, IInv
<1> QED BY <1>1, <1>2, <1>4, <1>5 DEF IInv

\* A step that stores clean data, whose records are old ones or have new names.
LEMMA WriteKeeps ==
    ASSUME IInv, NEW m \in Nat, made <= m, made' = m, NEW js \in Seq(RawUpTo(m)),
           NEW rs \in Seq(RecordUpTo(m)), Write(js, rs), Clean(js, rs),
           Len(js) + Len(rs) <= Limit, owned' \subseteq Contents(js, rs), Telling,
           \A r \in ToSet(rs) : r \in ToSet(Loaded.recovery) \/ r.id \notin NameUpTo(made),
           drafts' \in Seq(DraftUpTo(m)), file' \in Work(m)
    PROVE  IInv' /\ Loaded' = [jobs |-> jobs', recovery |-> recovery'] /\ Held(Loaded') <= Limit
<1>1. version' = 3 /\ jobs' = js /\ recovery' = rs
  BY DEF Write
<1>2. Loaded' = [jobs |-> js, recovery |-> rs]
  <2>1. RestoreJobs(js, 3, rs) = [jobs |-> js, recovery |-> rs]
    BY ReadBack
  <2> QED BY <1>1, <2>1 DEF Loaded
<1>3. Loaded'.jobs = js /\ Loaded'.recovery = rs
  BY <1>2
<1>4. TypeOK'
  BY <1>1 DEF TypeOK
<1>5. made \in Nat /\ NameUpTo(made) \subseteq NameUpTo(m)
  BY MoreNames DEF IInv, TypeOK
<1>6. \A i \in DOMAIN rs : rs[i] \in RecordUpTo(m) /\ rs[i].id \in NameUpTo(m)
  <2>1. \A i \in DOMAIN rs : rs[i] \in RecordUpTo(m)
    OBVIOUS
  <2> QED BY <2>1 DEF RecordUpTo
<1>7. \A r \in ToSet(rs) : r.id \in NameUpTo(m)
  BY <1>6 DEF ToSet
<1>8. \A r, s \in ToSet(rs) : r.id = s.id => r = s
  BY DEF Clean, Unlike, ToSet
<1>9. told' = told \cup {<<r.id, r.data.content>> : r \in ToSet(rs)}
  BY <1>3 DEF Telling
<1>10. \A a \in told' : \/ a \in told
                        \/ /\ a[1] \notin NameUpTo(made)
                           /\ \E r \in ToSet(rs) : a = <<r.id, r.data.content>>
  <2> SUFFICES ASSUME NEW a \in told', a \notin told
               PROVE  /\ a[1] \notin NameUpTo(made)
                      /\ \E r \in ToSet(rs) : a = <<r.id, r.data.content>>
    OBVIOUS
  <2>1. PICK r \in ToSet(rs) : a = <<r.id, r.data.content>>
    BY <1>9
  <2>2. r \notin ToSet(Loaded.recovery)
    BY <2>1 DEF IInv, Shown
  <2> QED BY <2>1, <2>2
<1>11. \A a \in told' : a[1] \in NameUpTo(m)
  BY <1>5, <1>7, <1>10 DEF IInv, Shown
<1>12. ASSUME NEW a \in told', NEW b \in told', a[1] = b[1] PROVE a = b
  <2>1. CASE a \in told /\ b \in told
    BY <1>12, <2>1 DEF IInv, Shown
  <2>2. CASE a \notin told /\ b \notin told
    <3>1. PICK r \in ToSet(rs) : a = <<r.id, r.data.content>>
      BY <1>10, <2>2
    <3>2. PICK s \in ToSet(rs) : b = <<s.id, s.data.content>>
      BY <1>10, <2>2
    <3>3. r.id = s.id
      BY <1>12, <3>1, <3>2
    <3> QED BY <1>8, <3>1, <3>2, <3>3
  <2>3. CASE a \in told /\ b \notin told
    BY <1>10, <1>12, <2>3 DEF IInv, Shown
  <2>4. CASE a \notin told /\ b \in told
    BY <1>10, <1>12, <2>4 DEF IInv, Shown
  <2> QED BY <2>1, <2>2, <2>3, <2>4
<1>13. Shown'
  BY <1>1, <1>3, <1>9, <1>11, <1>12 DEF Shown
<1>14. Held(Loaded') <= Limit
  BY <1>3 DEF Held
<1> QED BY <1>1, <1>2, <1>4, <1>13, <1>14 DEF IInv

-----------------------------------------------------------------------------
(* Steps.                                                                  *)

ReadOnceMore ==
    stored' # stored => /\ Loaded' = [jobs |-> jobs', recovery |-> recovery']
                        /\ Held(Loaded') <= Limit

LEMMA JobFacts ==
    ASSUME TypeOK, NEW j \in ToSet(Loaded.jobs)
    PROVE  /\ made \in Nat /\ j \in RawUpTo(made) /\ Whole(j)
           /\ j.terms \in Seq(TermUpTo(made)) /\ j.id \in NameUpTo(made)
<1>1. PICK i \in DOMAIN Loaded.jobs : j = Loaded.jobs[i]
  BY DEF ToSet
<1>2. j \in RawUpTo(made) /\ Whole(j)
  BY <1>1, LoadedFacts DEF Clean
<1> QED BY <1>2 DEF RawUpTo, TypeOK

\* A task gets other terms.
LEMMA WriteTermsKeeps ==
    ASSUME IInv, NEW m \in Nat, made <= m, made' = m, NEW id,
           NEW terms \in Seq(TermUpTo(m)), TermsValid(terms), Named(terms),
           WriteTerms(id, terms), owned' = owned, Telling,
           drafts' \in Seq(DraftUpTo(m)), file' = file
    PROVE  IInv' /\ ReadOnceMore
<1>1. PICK js : js = [i \in DOMAIN Loaded.jobs |->
                        IF Loaded.jobs[i].id = id THEN [Loaded.jobs[i] EXCEPT !.terms = terms]
                        ELSE Loaded.jobs[i]]
  OBVIOUS
<1>2. PICK rs : rs = Loaded.recovery
  OBVIOUS
<1>3. Write(js, rs)
  BY <1>1, <1>2 DEF WriteTerms
<1>4. PICK old \in Seq(RawUpTo(m)) : old = Loaded.jobs
  BY LoadedFacts, MoreNames DEF IInv, TypeOK
<1>5. /\ rs \in Seq(RecordUpTo(m)) /\ Clean(old, rs) /\ Len(old) + Len(rs) <= Limit
      /\ owned \subseteq Contents(old, rs)
  BY <1>2, <1>4, LoadedFacts, MoreNames DEF IInv, TypeOK
<1>6. PICK n \in Nat : n = Len(old)
  OBVIOUS
<1>7. \A i \in 1 .. n : old[i] \in RawUpTo(m) /\ Whole(old[i])
  <2>1. \A i \in DOMAIN old : Whole(old[i])
    BY <1>5 DEF Clean
  <2>2. DOMAIN old = 1 .. n
    BY <1>4, <1>6
  <2>3. \A i \in DOMAIN old : old[i] \in RawUpTo(m)
    BY <1>4
  <2> QED BY <2>1, <2>2, <2>3, Zenon
<1>8. js = [i \in 1 .. n |-> IF old[i].id = id THEN [old[i] EXCEPT !.terms = terms] ELSE old[i]]
  BY <1>1, <1>4, <1>6
<1>9. ASSUME NEW i \in 1 .. n
      PROVE  /\ js[i] \in RawUpTo(m) /\ Whole(js[i]) /\ js[i].id = old[i].id
             /\ js[i].content = old[i].content
  BY <1>7, <1>8 DEF RawUpTo, Whole
<1>10. js \in Seq(RawUpTo(m)) /\ Len(js) = n
  <2>1. js \in [1 .. n -> RawUpTo(m)]
    BY <1>8, <1>9
  <2> QED BY <2>1, Listed
<1>11. DOMAIN js = 1 .. n /\ DOMAIN old = 1 .. n
  BY <1>6, <1>10
<1>12. Clean(js, rs)
  BY <1>5, <1>9, <1>11 DEF Clean, Unlike
<1>13. Contents(js, rs) = Contents(old, rs)
  <2>1. {j.content : j \in ToSet(js)} = {js[i].content : i \in 1 .. n}
    BY <1>11 DEF ToSet
  <2>2. {j.content : j \in ToSet(old)} = {old[i].content : i \in 1 .. n}
    BY <1>11 DEF ToSet
  <2>3. {js[i].content : i \in 1 .. n} = {old[i].content : i \in 1 .. n}
    BY <1>9
  <2> QED BY <2>1, <2>2, <2>3 DEF Contents
<1>14. file' \in Work(m)
  BY MoreNames DEF IInv, TypeOK
<1>15. \A r \in ToSet(rs) : r \in ToSet(Loaded.recovery)
  BY <1>2
<1>16. Len(js) + Len(rs) <= Limit /\ owned' \subseteq Contents(js, rs)
  BY <1>5, <1>6, <1>10, <1>13
<1> QED BY <1>3, <1>5, <1>10, <1>12, <1>14, <1>15, <1>16, WriteKeeps DEF ReadOnceMore

\* One term more, of another source and with another name, if it has one.
LEMMA OneMoreTerm ==
    ASSUME NEW m \in Nat, NEW w \in Seq(TermUpTo(m)), TermsValid(w), NEW e \in TermUpTo(m),
           e.source \notin Sources(w), e.id = NoID \/ e.id \notin Ids(w)
    PROVE  Append(w, e) \in Seq(TermUpTo(m)) /\ TermsValid(Append(w, e))
<1>1. PICK c \in Nat : c = Len(w)
  OBVIOUS
<1>2. PICK u : u = Append(w, e)
  OBVIOUS
<1>3. /\ u \in Seq(TermUpTo(m)) /\ Len(u) = c + 1 /\ u[c + 1] = e
      /\ \A k \in 1 .. c : u[k] = w[k]
  BY <1>1, <1>2, AppendProperties
<1>4. DOMAIN u = 1 .. c + 1 /\ DOMAIN w = 1 .. c /\ \A k \in 1 .. c + 1 : k \in 1 .. c \/ k = c + 1
  BY <1>1, <1>3
<1>5. \A k \in 1 .. c : w[k].source # e.source /\ (e.id = NoID \/ w[k].id # e.id)
  BY <1>4 DEF Sources, Ids, ToSet
<1>6. ASSUME NEW i \in 1 .. c + 1, NEW k \in 1 .. c + 1, i # k
      PROVE  u[i].source # u[k].source /\ (u[i].id # u[k].id \/ u[i].id = NoID)
  <2>1. CASE i \in 1 .. c /\ k \in 1 .. c
    BY <1>3, <1>4, <1>6, <2>1 DEF TermsValid
  <2>2. CASE i = c + 1 /\ k \in 1 .. c
    BY <1>3, <1>5, <2>2
  <2>3. CASE k = c + 1 /\ i \in 1 .. c
    BY <1>3, <1>5, <2>3
  <2> QED BY <1>4, <1>6, <2>1, <2>2, <2>3
<1>7. TermsValid(u)
  BY <1>4, <1>6 DEF TermsValid
<1> QED BY <1>2, <1>3, <1>7

\* These are valid terms, and they begin with those of before.
Grown(w, m, terms) ==
    /\ w \in Seq(TermUpTo(m)) /\ TermsValid(w) /\ Len(terms) <= Len(w)
    /\ \A k \in 1 .. Len(terms) : w[k] = terms[k]

LEMMA LearnKeeps ==
    ASSUME NEW m \in Nat, NEW terms \in Seq(TermUpTo(m)), NEW w, Grown(w, m, terms),
           NEW t \in [source : Source, target : Target], NEW now
    PROVE  Grown(Learn(w, t, now), m, terms)
<1>1. PICK e : e = Term(NoID, t.source, t.target, FALSE)
  OBVIOUS
<1>2. e \in TermUpTo(m) /\ e.id = NoID /\ e.source = t.source
  BY <1>1 DEF Term, TermUpTo, NameUpTo
<1>3. CASE t.source \in Sources(w) \/ t.source \notin now
  BY <1>3 DEF Learn
<1>4. CASE ~(t.source \in Sources(w) \/ t.source \notin now)
  <2>1. Learn(w, t, now) = Append(w, e)
    BY <1>1, <1>4 DEF Learn
  <2>2. w \in Seq(TermUpTo(m)) /\ TermsValid(w)
    BY DEF Grown
  <2>3. PICK c \in Nat : c = Len(w)
    BY <2>2
  <2>4. PICK l \in Nat : l = Len(terms)
    OBVIOUS
  <2>5. l <= c /\ \A k \in 1 .. l : w[k] = terms[k]
    BY <2>3, <2>4 DEF Grown
  <2>6. PICK u : u = Append(w, e)
    OBVIOUS
  <2>7. Len(u) = c + 1 /\ \A k \in 1 .. c : u[k] = w[k]
    BY <1>2, <2>2, <2>3, <2>6, AppendProperties
  <2>8. u \in Seq(TermUpTo(m)) /\ TermsValid(u)
    BY <1>2, <1>4, <2>2, <2>6, OneMoreTerm
  <2>9. l <= Len(u) /\ \A k \in 1 .. l : u[k] = terms[k]
    BY <2>5, <2>7
  <2> QED BY <2>1, <2>4, <2>6, <2>8, <2>9 DEF Grown
<1> QED BY <1>3, <1>4

\* What an answer adds is valid, whatever it brings, and what was there stands.
LEMMA LearnedFacts ==
    ASSUME NEW m \in Nat, NEW terms \in Seq(TermUpTo(m)), TermsValid(terms),
           NEW reply \in Seq([source : Source, target : Target]), NEW now
    PROVE  /\ Learned(terms, reply, now) \in Seq(TermUpTo(m))
           /\ TermsValid(Learned(terms, reply, now))
           /\ SubSeq(Learned(terms, reply, now), 1, Len(terms)) = terms
<1>0. PICK n \in Nat : n = Len(reply)
  OBVIOUS
<1>1. PICK l \in Nat : l = Len(terms)
  OBVIOUS
<1> DEFINE F(f) == [i \in 0 .. n |-> IF i = 0 THEN terms ELSE Learn(f[i - 1], reply[i], now)]
           learned == CHOOSE f : f = F(f)
<1>2. PICK U : U = {w \in Seq(TermUpTo(m)) : Grown(w, m, terms)}
  OBVIOUS
<1>2a. \A w : w \in U <=> Grown(w, m, terms)
  BY <1>2 DEF Grown
<1>3. terms \in U
  BY <1>2a DEF Grown
<1>4. ASSUME NEW i \in 1 .. n, NEW w \in U PROVE Learn(w, reply[i], now) \in U
  <2>1. reply[i] \in [source : Source, target : Target]
    BY <1>0, ElementOfSeq
  <2> QED BY <1>2a, <2>1, LearnKeeps
<1>5. PICK W : W = [i \in 0 .. n |-> U]
  OBVIOUS
<1>6. PICK step : step = [i \in 1 .. n |-> [w \in U |-> Learn(w, reply[i], now)]]
  OBVIOUS
<1>7. \A i \in 1 .. n : i \in 0 .. n /\ i - 1 \in 0 .. n /\ i # 0
  OBVIOUS
<1>8. terms \in W[0] /\ \A i \in 1 .. n : \A w \in W[i - 1] : step[i][w] \in W[i]
  BY <1>3, <1>4, <1>5, <1>6, <1>7
<1>9. PICK g : Goes(g, n, terms, step) /\ \A i \in 0 .. n : g[i] \in W[i]
  BY <1>8, Recursion
<1>10. g = F(g)
  <2>1. /\ g = [i \in 0 .. n |-> g[i]] /\ g[0] = terms /\ \A i \in 0 .. n : g[i] \in U
        /\ \A i \in 1 .. n : g[i] = step[i][g[i - 1]]
    BY <1>5, <1>9 DEF Goes
  <2>2. \A i \in 1 .. n : g[i] = Learn(g[i - 1], reply[i], now)
    BY <1>6, <1>7, <2>1
  <2>3. \A i \in 0 .. n : g[i] = IF i = 0 THEN terms ELSE Learn(g[i - 1], reply[i], now)
    <3> SUFFICES ASSUME NEW i \in 0 .. n
                 PROVE  g[i] = IF i = 0 THEN terms ELSE Learn(g[i - 1], reply[i], now)
      OBVIOUS
    <3>1. CASE i = 0
      BY <3>1, <2>1
    <3>2. CASE i # 0
      BY <3>2, <2>2
    <3> QED BY <3>1, <3>2
  <2> QED BY <2>1, <2>3
<1>11. learned = F(learned)
  BY <1>10
<1>12. Learned(terms, reply, now) = learned[n]
  BY <1>0 DEF Learned
<1>13. PICK h : h = learned
  OBVIOUS
<1>14. h[0] = terms /\ \A i \in 1 .. n : h[i] = Learn(h[i - 1], reply[i], now)
  <2>1. h = F(h)
    BY <1>11, <1>13
  <2>2. \A i \in 0 .. n : h[i] = IF i = 0 THEN terms ELSE Learn(h[i - 1], reply[i], now)
    BY <2>1
  <2> QED BY <2>2
<1> HIDE DEF learned
<1>15. h[n] \in U
  <2>1. \A i \in 1 .. n : h[i - 1] \in W[i - 1] => h[i] \in W[i]
    BY <1>4, <1>5, <1>7, <1>14
  <2>2. h[0] \in W[0]
    BY <1>3, <1>5, <1>14
  <2>3. \A i \in 0 .. n : h[i] \in W[i]
    BY <2>1, <2>2, Along
  <2> QED BY <1>5, <2>3
<1>16. SubSeq(h[n], 1, l) = terms
  <2>1. PICK w \in Seq(TermUpTo(m)) : w = h[n] /\ l <= Len(w) /\ \A k \in 1 .. l : w[k] = terms[k]
    BY <1>1, <1>2a, <1>15 DEF Grown
  <2>2. SubSeq(w, 1, l) \in Seq(TermUpTo(m)) /\ Len(SubSeq(w, 1, l)) = l
        /\ \A k \in 1 .. l : SubSeq(w, 1, l)[k] = w[k]
    BY <2>1
  <2> QED BY <1>1, <2>1, <2>2, SeqEqual
<1>17. Grown(h[n], m, terms)
  BY <1>2a, <1>15
<1> QED BY <1>1, <1>12, <1>13, <1>16, <1>17 DEF Grown


LEMMA RepliesAre ==
    ASSUME NEW reply \in Reply PROVE reply \in Seq([source : Source, target : Target])
<1>1. PICK n \in 0 .. MaxReply : reply \in [1 .. n -> [source : Source, target : Target]]
  BY DEF Reply, BoundedSeq, SeqOf
<1>2. n \in Nat
  OBVIOUS
<1> QED BY <1>1, <1>2, Listed

LEMMA LearnStep ==
    ASSUME IInv, Telling, NEW j \in ToSet(Loaded.jobs), NEW reply \in Reply,
           NEW now \in SUBSET Source, LearnTerms(j, Learned(j.terms, reply, now))
    PROVE  IInv' /\ ReadOnceMore
<1>1. made \in Nat /\ j.terms \in Seq(TermUpTo(made)) /\ TermsValid(j.terms)
  BY JobFacts DEF IInv, Whole
<1>2. reply \in Seq([source : Source, target : Target])
  BY RepliesAre
<1>3. PICK terms : terms = Learned(j.terms, reply, now)
  OBVIOUS
<1>4. terms \in Seq(TermUpTo(made)) /\ TermsValid(terms)
  BY <1>1, <1>2, <1>3, LearnedFacts
<1>5. /\ Identified(terms) \in Seq(TermUpTo(made))
      /\ TermsValid(Identified(terms)) /\ Named(Identified(terms))
  BY <1>1, <1>4, IdentifiedFacts
<1>6. /\ WriteTerms(j.id, Identified(terms)) /\ drafts' = drafts /\ file' = file
      /\ made' = made /\ owned' = owned
  BY <1>3 DEF LearnTerms
<1>7. drafts' \in Seq(DraftUpTo(made))
  BY <1>6 DEF IInv, TypeOK
<1> QED BY <1>1, <1>5, <1>6, <1>7, WriteTermsKeeps

\* A name that localID makes is new.
LEMMA NewName ==
    ASSUME NEW m \in Nat, NEW n \in Nat, m < n
    PROVE  /\ Local(n) \notin NameUpTo(m) /\ Local(n) # NoID
           /\ \A k \in Nat : n <= k => Local(n) \in NameUpTo(k)
           /\ \A k \in Nat : Local(n) = Local(k) => n = k
<1>1. Local(n) = <<"local", n, 0>> /\ Local(n) # <<>>
  BY DEF Local, ID
<1>2. Local(n)[1] = "local" /\ Local(n)[2] = n
  BY <1>1
<1>3. Local(n) \notin NameUpTo(m)
  BY <1>1, <1>2 DEF NameUpTo, NoID
<1>4. \A k \in Nat : Local(k)[2] = k
  BY DEF Local, ID
<1>5. "local" \in Kind
  BY DEF Kind
<1>6. \A k \in Nat : n <= k => Local(n) \in NameUpTo(k)
  BY <1>5, IDFacts DEF Local
<1> QED BY <1>1, <1>2, <1>3, <1>4, <1>6 DEF NoID

LEMMA AddTermStep ==
    ASSUME IInv, Telling, NEW j \in ToSet(Loaded.jobs), NEW source \in Source,
           NEW target \in Target, AddTerm(j, source, target)
    PROVE  IInv' /\ ReadOnceMore
<1>1. /\ made \in Nat /\ j.terms \in Seq(TermUpTo(made))
      /\ TermsValid(j.terms) /\ Named(j.terms)
  BY JobFacts DEF IInv, Whole
<1>2. PICK m \in Nat : m = made + 1
  BY <1>1
<1>3. made <= m /\ made < m
  BY <1>1, <1>2
<1>4. PICK e : e = Term(Local(m), source, target, TRUE)
  OBVIOUS
<1>5. e \in TermUpTo(m) /\ e.id # NoID /\ e.id \notin NameUpTo(made) /\ e.source = source
  BY <1>1, <1>3, <1>4, NewName DEF Term, TermUpTo
<1>6. PICK w \in Seq(TermUpTo(m)) : w = j.terms
  BY <1>1, <1>3, MoreNames
<1>7. e.id \notin Ids(w)
  <2>1. \A k \in DOMAIN w : w[k] \in TermUpTo(made)
    BY <1>1, <1>6
  <2> QED BY <1>5, <2>1 DEF Ids, ToSet, TermUpTo
<1>8. PICK terms : terms = Append(w, e)
  OBVIOUS
<1>9. source \notin Sources(w)
  BY <1>6 DEF AddTerm
<1>10. terms \in Seq(TermUpTo(m)) /\ TermsValid(terms)
  BY <1>1, <1>5, <1>6, <1>7, <1>8, <1>9, OneMoreTerm
<1>11. Named(terms)
  BY <1>1, <1>5, <1>6, <1>8, Appended
<1>12. /\ made' = m /\ WriteTerms(j.id, terms) /\ drafts' = drafts /\ file' = file
       /\ owned' = owned
  BY <1>2, <1>4, <1>6, <1>8 DEF AddTerm
<1>13. drafts' \in Seq(DraftUpTo(m))
  BY <1>1, <1>3, <1>12, MoreNames DEF IInv, TypeOK
<1> QED BY <1>3, <1>10, <1>11, <1>12, <1>13, WriteTermsKeeps

LEMMA RemoveTermStep ==
    ASSUME IInv, Telling, NEW j \in ToSet(Loaded.jobs), NEW id, RemoveTerm(j, id)
    PROVE  IInv' /\ ReadOnceMore
<1>1. /\ made \in Nat /\ j.terms \in Seq(TermUpTo(made))
      /\ TermsValid(j.terms) /\ Named(j.terms)
  BY JobFacts DEF IInv, Whole
<1>2. PICK terms : terms = Only(j.terms, {t \in ToSet(j.terms) : t.id # id})
  OBVIOUS
<1>3. terms \in Seq(TermUpTo(made)) /\ TermsValid(terms) /\ Named(terms)
  BY <1>1, <1>2, OnlyKeeps
<1>4. /\ WriteTerms(j.id, terms) /\ drafts' = drafts /\ file' = file
      /\ made' = made /\ owned' = owned
  BY <1>2 DEF RemoveTerm
<1>5. drafts' \in Seq(DraftUpTo(made))
  BY <1>4 DEF IInv, TypeOK
<1> QED BY <1>1, <1>3, <1>4, <1>5, WriteTermsKeeps


-----------------------------------------------------------------------------
(* Editing.                                                                *)

LEMMA MemoryFacts ==
    ASSUME NEW m \in Nat, NEW terms \in Seq(TermUpTo(m)), NEW f, HasField(terms, f)
    PROVE  /\ f.text = "source" => MemoryValue(terms, f) \in Source
           /\ f.text # "source" => MemoryValue(terms, f) \in Target
<1>1. PICK t \in ToSet(terms) : /\ t = (CHOOSE u \in ToSet(terms) : u.id = f.term)
                                /\ t.id = f.term
  BY DEF HasField
<1>2. \A k \in DOMAIN terms : terms[k] \in TermUpTo(m)
  OBVIOUS
<1>3. t.source \in Source /\ t.target \in Target
  BY <1>2 DEF ToSet, TermUpTo
<1> QED BY <1>1, <1>3 DEF MemoryValue

\* Editing keeps the names, and valid terms valid.
LEMMA EditedFacts ==
    ASSUME NEW m \in Nat, NEW terms \in Seq(TermUpTo(m)), NEW f, NEW value, NEW previous,
           f.text = "source" => value \in Source, f.text # "source" => value \in Target
    PROVE  /\ Edited(terms, f, value) \in Seq(TermUpTo(m))
           /\ Named(terms) => Named(Edited(terms, f, value))
           /\ TermsValid(terms) /\ Named(terms) /\ MayEdit(terms, f, value, previous)
                 => TermsValid(Edited(terms, f, value))
<1>1. PICK n \in Nat : n = Len(terms)
  OBVIOUS
<1>2. PICK u : u = Edited(terms, f, value)
  OBVIOUS
<1>3. \A i \in 1 .. n : terms[i] \in TermUpTo(m)
  BY <1>1
<1>4. DOMAIN terms = 1 .. n
  BY <1>1
<1>5. u = [i \in 1 .. n |-> u[i]]
  BY <1>2, <1>4 DEF Edited
<1>6. ASSUME NEW i \in 1 .. n
      PROVE  /\ u[i] \in TermUpTo(m) /\ u[i].id = terms[i].id
             /\ terms[i].id # f.term => u[i].source = terms[i].source
             /\ u[i].source \in {terms[i].source, value}
             /\ f.text # "source" => u[i].source = terms[i].source
  <2>1. u[i] = IF terms[i].id # f.term THEN terms[i]
               ELSE IF f.text = "source" THEN Term(terms[i].id, value, terms[i].target, TRUE)
               ELSE Term(terms[i].id, terms[i].source, value, TRUE)
    BY <1>2, <1>4 DEF Edited
  <2>2. terms[i] \in TermUpTo(m)
    BY <1>3
  <2> QED BY <2>1, <2>2 DEF Term, TermUpTo
<1>7. u \in Seq(TermUpTo(m)) /\ Len(u) = n
  <2>1. u \in [1 .. n -> TermUpTo(m)]
    BY <1>5, <1>6
  <2> QED BY <2>1, Listed
<1>8. DOMAIN u = 1 .. n
  BY <1>7
<1>9. Named(terms) => Named(u)
  BY <1>4, <1>6, <1>8 DEF Named
<1>10. ASSUME TermsValid(terms), Named(terms), MayEdit(terms, f, value, previous)
       PROVE  TermsValid(u)
  <2>1. \A i, k \in 1 .. n : i # k => /\ terms[i].source # terms[k].source
                                      /\ terms[i].id # terms[k].id
    BY <1>4, <1>10 DEF TermsValid, Named
  <2>2. f.text = "source" => \A k \in 1 .. n : terms[k].id # f.term => terms[k].source # value
    BY <1>4, <1>10 DEF MayEdit, ToSet
  <2>3. ASSUME NEW i \in 1 .. n, NEW k \in 1 .. n, i # k
        PROVE  u[i].source # u[k].source /\ u[i].id # u[k].id
    <3>1. u[i].id # u[k].id
      BY <1>6, <2>1, <2>3
    <3>2. CASE f.text # "source"
      BY <1>6, <2>1, <2>3, <3>2
    <3>3. CASE f.text = "source" /\ terms[i].id # f.term /\ terms[k].id # f.term
      BY <1>6, <2>1, <2>3, <3>3
    <3>4. CASE f.text = "source" /\ terms[i].id = f.term
      <4>1. terms[k].id # f.term
        BY <2>1, <2>3, <3>4
      <4>2. u[k].source = terms[k].source /\ terms[k].source # value
        BY <1>6, <2>2, <3>4, <4>1
      <4> QED BY <1>6, <2>1, <2>3, <3>1, <4>2
    <3>5. CASE f.text = "source" /\ terms[k].id = f.term
      <4>1. terms[i].id # f.term
        BY <2>1, <2>3, <3>5
      <4>2. u[i].source = terms[i].source /\ terms[i].source # value
        BY <1>6, <2>2, <3>5, <4>1
      <4> QED BY <1>6, <2>1, <2>3, <3>1, <4>2
    <3> QED BY <3>2, <3>3, <3>4, <3>5
  <2> QED BY <1>8, <2>3 DEF TermsValid
<1> QED BY <1>2, <1>7, <1>9, <1>10

\* What a draft of the tab may be.
LEMMA DraftFacts ==
    ASSUME IInv, NEW d \in ToSet(drafts)
    PROVE  /\ d \in DraftUpTo(made) /\ d.job \in NameUpTo(made) /\ d.term \in NameUpTo(made)
           /\ d.text \in {"source", "target"}
           /\ d.text = "source" => d.value \in Source \cup {Blank}
           /\ d.text # "source" => d.value \in Target \cup {Blank}
<1>1. \A k \in DOMAIN drafts : drafts[k] \in DraftUpTo(made)
  BY DEF IInv, TypeOK
<1>2. d \in DraftUpTo(made)
  BY <1>1 DEF ToSet
<1> QED BY <1>2 DEF DraftUpTo

LEMMA WithoutKeeps ==
    ASSUME IInv, NEW d PROVE Without(d) \in Seq(DraftUpTo(made))
<1>1. drafts \in Seq(DraftUpTo(made))
  BY DEF IInv, TypeOK
<1> QED BY <1>1, OnlyKeeps DEF Without

LEMMA SaveDraftStep ==
    ASSUME IInv, Telling, NEW j \in ToSet(Loaded.jobs), NEW d \in ToSet(drafts), SaveDraft(j, d)
    PROVE  IInv' /\ ReadOnceMore
<1>1. /\ made \in Nat /\ j.terms \in Seq(TermUpTo(made))
      /\ TermsValid(j.terms) /\ Named(j.terms)
  BY JobFacts DEF IInv, Whole
<1>2. MayEdit(j.terms, d, d.value, d.previous)
  BY DEF SaveDraft
<1>3. d.text = "source" => d.value \in Source
  BY <1>2, DraftFacts DEF MayEdit
<1>4. d.text # "source" => d.value \in Target
  BY <1>2, DraftFacts DEF MayEdit
<1>5. PICK terms : terms = Edited(j.terms, d, d.value)
  OBVIOUS
<1>6. terms \in Seq(TermUpTo(made)) /\ TermsValid(terms) /\ Named(terms)
  BY <1>1, <1>2, <1>3, <1>4, <1>5, EditedFacts
<1>7. /\ WriteTerms(j.id, terms) /\ drafts' = Without(d) /\ file' = file
      /\ made' = made /\ owned' = owned
  BY <1>5 DEF SaveDraft
<1>8. drafts' \in Seq(DraftUpTo(made))
  BY <1>7, WithoutKeeps
<1> QED BY <1>1, <1>6, <1>7, <1>8, WriteTermsKeeps

\* Steps of the tab that store nothing.
LEMMA TypeDraftStep ==
    ASSUME IInv, Telling, NEW j \in ToSet(Loaded.jobs), NEW t \in ToSet(j.terms),
           NEW text \in {"source", "target"},
           NEW value \in (IF text = "source" THEN Source ELSE Target) \cup {Blank},
           TypeDraft(j, [term |-> t.id, text |-> text], value)
    PROVE  IInv' /\ ReadOnceMore
<1>1. made \in Nat /\ j.terms \in Seq(TermUpTo(made)) /\ j.id \in NameUpTo(made)
  BY JobFacts DEF IInv
<1>2. PICK f : f = [term |-> t.id, text |-> text]
  OBVIOUS
<1>3. f.term = t.id /\ f.text = text
  BY <1>2
<1>4. t.id \in NameUpTo(made)
  <2>1. \A k \in DOMAIN j.terms : j.terms[k] \in TermUpTo(made)
    BY <1>1
  <2> QED BY <2>1 DEF ToSet, TermUpTo
<1>5. HasField(j.terms, f)
  BY <1>3 DEF HasField
<1>6. PICK previous : previous = MemoryValue(j.terms, f)
  OBVIOUS
<1>7. previous \in IF text = "source" THEN Source ELSE Target
  BY <1>1, <1>3, <1>5, <1>6, MemoryFacts
<1>8. PICK d : d = [job |-> j.id, term |-> t.id, text |-> text, value |-> value,
                    previous |-> previous]
  OBVIOUS
<1>9. d \in DraftUpTo(made)
  BY <1>1, <1>4, <1>7, <1>8 DEF DraftUpTo
<1>10. /\ drafts' = Append(drafts, d) /\ UNCHANGED stored /\ file' = file /\ made' = made
       /\ owned' = owned
  BY <1>2, <1>3, <1>6, <1>8 DEF TypeDraft
<1>11. drafts' \in Seq(DraftUpTo(made))
  BY <1>9, <1>10, AppendProperties DEF IInv, TypeOK
<1>12. file' \in Work(made)
  BY <1>10 DEF IInv, TypeOK
<1> QED BY <1>10, <1>11, <1>12, ReadKeeps DEF ReadOnceMore

LEMMA KeepMineStep ==
    ASSUME IInv, Telling, NEW j \in ToSet(Loaded.jobs), NEW d \in ToSet(drafts), KeepMine(j, d)
    PROVE  IInv' /\ ReadOnceMore
<1>1. made \in Nat /\ j.terms \in Seq(TermUpTo(made))
  BY JobFacts DEF IInv
<1>2. HasField(j.terms, d)
  BY DEF KeepMine
<1>3. PICK e : e = [d EXCEPT !.previous = MemoryValue(j.terms, d)]
  OBVIOUS
<1>4. e \in DraftUpTo(made)
  <2>1. d \in DraftUpTo(made)
    BY DraftFacts
  <2>2. /\ d.text = "source" => MemoryValue(j.terms, d) \in Source
        /\ d.text # "source" => MemoryValue(j.terms, d) \in Target
    BY <1>1, <1>2, MemoryFacts
  <2> QED BY <1>3, <2>1, <2>2 DEF DraftUpTo
<1>5. PICK n \in Nat : n = Len(drafts)
  BY DEF IInv, TypeOK
<1>6. drafts \in Seq(DraftUpTo(made))
  BY DEF IInv, TypeOK
<1>7. drafts' = [i \in 1 .. n |-> IF drafts[i] = d THEN e ELSE drafts[i]]
  BY <1>3, <1>5, <1>6 DEF KeepMine
<1>8. \A i \in 1 .. n : drafts[i] \in DraftUpTo(made)
  BY <1>5, <1>6
<1>9. drafts' \in [1 .. n -> DraftUpTo(made)]
  BY <1>4, <1>7, <1>8
<1>10. drafts' \in Seq(DraftUpTo(made))
  BY <1>9, Listed
<1>11. UNCHANGED stored /\ file' = file /\ made' = made /\ owned' = owned
  BY DEF KeepMine
<1>12. file' \in Work(made)
  BY <1>11 DEF IInv, TypeOK
<1> QED BY <1>10, <1>11, <1>12, ReadKeeps DEF ReadOnceMore

LEMMA DropDraftStep ==
    ASSUME IInv, Telling, NEW d, DropDraft(d)
    PROVE  IInv' /\ ReadOnceMore
<1>1. UNCHANGED stored /\ file' = file /\ made' = made /\ owned' = owned /\ drafts' = Without(d)
  BY DEF DropDraft
<1>2. drafts' \in Seq(DraftUpTo(made)) /\ file' \in Work(made)
  BY <1>1, WithoutKeeps DEF IInv, TypeOK
<1> QED BY <1>1, <1>2, ReadKeeps DEF ReadOnceMore


-----------------------------------------------------------------------------
(* Tasks and records that come and go.                                     *)

\* One list after another.
LEMMA Joined ==
    ASSUME NEW S, NEW a \in Seq(S), NEW b \in Seq(S)
    PROVE  /\ a \o b \in Seq(S) /\ Len(a \o b) = Len(a) + Len(b)
           /\ ToSet(a \o b) = ToSet(a) \cup ToSet(b)
           /\ Named(a) /\ Named(b) => Named(a \o b)
           /\ Unlike(a) /\ Unlike(b) /\ (\A x \in ToSet(a), y \in ToSet(b) : x.id # y.id)
                 => Unlike(a \o b)
<1>1. PICK p \in Nat : p = Len(a)
  OBVIOUS
<1>2. PICK q \in Nat : q = Len(b)
  OBVIOUS
<1>3. PICK c : c = a \o b
  OBVIOUS
<1>4. c \in Seq(S) /\ Len(c) = p + q
  BY <1>1, <1>2, <1>3
<1>5. \A i \in 1 .. p : c[i] = a[i]
  BY <1>1, <1>2, <1>3
<1>6. \A i \in 1 .. q : c[p + i] = b[i]
  BY <1>1, <1>2, <1>3
<1>7. DOMAIN a = 1 .. p /\ DOMAIN b = 1 .. q /\ DOMAIN c = 1 .. p + q
  BY <1>1, <1>2, <1>4
<1>8. \A i \in 1 .. p + q : i \in 1 .. p \/ (i - p \in 1 .. q /\ i = p + (i - p))
  OBVIOUS
<1>9. \A i \in 1 .. q : p + i \in 1 .. p + q
  OBVIOUS
<1>10. \A i \in 1 .. p : i \in 1 .. p + q
  OBVIOUS
<1>11. ToSet(c) = ToSet(a) \cup ToSet(b)
  <2>1. ASSUME NEW x PROVE x \in ToSet(c) <=> x \in ToSet(a) \/ x \in ToSet(b)
    <3>1. x \in ToSet(c) => x \in ToSet(a) \/ x \in ToSet(b)
      <4> SUFFICES ASSUME NEW i \in 1 .. p + q, x = c[i] PROVE x \in ToSet(a) \/ x \in ToSet(b)
        BY <1>7 DEF ToSet
      <4> QED BY <1>5, <1>6, <1>7, <1>8 DEF ToSet
    <3>2. x \in ToSet(a) => x \in ToSet(c)
      BY <1>5, <1>7, <1>10 DEF ToSet
    <3>3. x \in ToSet(b) => x \in ToSet(c)
      BY <1>6, <1>7, <1>9 DEF ToSet
    <3> QED BY <3>1, <3>2, <3>3
  <2> QED BY <2>1
<1>12. ASSUME Named(a), Named(b) PROVE Named(c)
  <2> SUFFICES ASSUME NEW i \in 1 .. p + q PROVE c[i].id # NoID
    BY <1>7 DEF Named
  <2>1. CASE i \in 1 .. p
    BY <1>5, <1>7, <1>12, <2>1 DEF Named
  <2>2. CASE i - p \in 1 .. q /\ i = p + (i - p)
    BY <1>6, <1>7, <1>12, <2>2 DEF Named
  <2> QED BY <1>8, <2>1, <2>2
<1>13. ASSUME Unlike(a), Unlike(b), \A x \in ToSet(a), y \in ToSet(b) : x.id # y.id
       PROVE  Unlike(c)
  <2> SUFFICES ASSUME NEW i \in 1 .. p + q, NEW k \in 1 .. p + q, i # k
               PROVE  c[i].id # c[k].id
    BY <1>7 DEF Unlike
  <2>1. CASE i \in 1 .. p /\ k \in 1 .. p
    BY <1>5, <1>7, <1>13, <2>1 DEF Unlike
  <2>2. CASE i \in 1 .. p /\ k - p \in 1 .. q /\ k = p + (k - p)
    <3>1. c[i] \in ToSet(a) /\ c[k] \in ToSet(b)
      BY <1>5, <1>6, <1>7, <2>2 DEF ToSet
    <3> QED BY <1>13, <3>1
  <2>3. CASE k \in 1 .. p /\ i - p \in 1 .. q /\ i = p + (i - p)
    <3>1. c[k] \in ToSet(a) /\ c[i] \in ToSet(b)
      BY <1>5, <1>6, <1>7, <2>3 DEF ToSet
    <3> QED BY <1>13, <3>1
  <2>4. CASE i - p \in 1 .. q /\ i = p + (i - p) /\ k - p \in 1 .. q /\ k = p + (k - p)
    <3>1. c[i] = b[i - p] /\ c[k] = b[k - p] /\ i - p # k - p
      BY <1>6, <2>4
    <3> QED BY <1>7, <1>13, <2>4, <3>1 DEF Unlike
  <2> QED BY <1>8, <2>1, <2>2, <2>3, <2>4
<1> QED BY <1>1, <1>2, <1>3, <1>4, <1>11, <1>12, <1>13

\* What belongs to a list is of its type.
LEMMA Members ==
    ASSUME NEW S, NEW s \in Seq(S) PROVE \A x \in ToSet(s) : x \in S
<1>1. \A i \in DOMAIN s : s[i] \in S
  OBVIOUS
<1> QED BY <1>1 DEF ToSet

\* Elements of one name are one element.
LEMMA UnlikeApart ==
    ASSUME NEW s, Unlike(s) PROVE \A x, y \in ToSet(s) : x.id = y.id => x = y
<1> SUFFICES ASSUME NEW x \in ToSet(s), NEW y \in ToSet(s), x.id = y.id PROVE x = y
  OBVIOUS
<1>1. PICK i \in DOMAIN s : x = s[i]
  BY DEF ToSet
<1>2. PICK k \in DOMAIN s : y = s[k]
  BY DEF ToSet
<1> QED BY <1>1, <1>2 DEF Unlike

LEMMA DeleteJobStep ==
    ASSUME IInv, Telling, NEW id, DeleteJob(id)
    PROVE  IInv' /\ ReadOnceMore
<1>1. PICK old \in Seq(RawUpTo(made)) : old = Loaded.jobs
  BY LoadedFacts DEF IInv
<1>2. PICK rs \in Seq(RecordUpTo(made)) : rs = Loaded.recovery
  BY LoadedFacts DEF IInv
<1>3. /\ Clean(old, rs) /\ Len(old) + Len(rs) <= Limit /\ owned \subseteq Contents(old, rs)
      /\ made \in Nat /\ drafts \in Seq(DraftUpTo(made)) /\ file \in Work(made)
  BY <1>1, <1>2, LoadedFacts DEF IInv, TypeOK
<1>4. PICK js : js = Only(old, {j \in ToSet(old) : j.id # id})
  OBVIOUS
<1>5. /\ js \in Seq(RawUpTo(made)) /\ Len(js) <= Len(old)
      /\ ToSet(js) = ToSet(old) \cap {j \in ToSet(old) : j.id # id} /\ Unlike(js)
  BY <1>3, <1>4, OnlyKeeps DEF Clean
<1>6. Clean(js, rs)
  <2>1. \A j \in ToSet(old) : Whole(j)
    BY <1>3 DEF Clean, ToSet
  <2>2. \A i \in DOMAIN js : js[i] \in ToSet(old)
    BY <1>5 DEF ToSet
  <2> QED BY <1>3, <1>5, <2>1, <2>2 DEF Clean
<1>7. Len(js) + Len(rs) <= Limit
  <2>1. Len(js) \in Nat /\ Len(old) \in Nat /\ Len(rs) \in Nat
    BY <1>5
  <2> QED BY <1>3, <1>5, <2>1
<1>8. /\ Write(js, rs) /\ file' = file /\ made' = made
      /\ drafts' = Only(drafts, {d \in ToSet(drafts) : d.job # id})
      /\ owned' = owned \ {j.content : j \in {k \in ToSet(old) : k.id = id}}
  BY <1>1, <1>2, <1>4 DEF DeleteJob
<1>9. owned' \subseteq Contents(js, rs)
  <2> SUFFICES ASSUME NEW c \in owned' PROVE c \in Contents(js, rs)
    OBVIOUS
  <2>1. c \in owned /\ \A j \in ToSet(old) : j.id = id => j.content # c
    BY <1>8
  <2>2. CASE \E r \in ToSet(rs) : r.data.content = c
    BY <2>2 DEF Contents
  <2>3. CASE \E j \in ToSet(old) : j.content = c
    BY <1>5, <2>1, <2>3 DEF Contents
  <2> QED BY <1>3, <2>1, <2>2, <2>3 DEF Contents
<1>10. drafts' \in Seq(DraftUpTo(made))
  BY <1>3, <1>8, OnlyKeeps
<1>11. \A r \in ToSet(rs) : r \in ToSet(Loaded.recovery)
  BY <1>2
<1>12. file' \in Work(made) /\ made <= made
  BY <1>3, <1>8
<1> QED BY <1>3, <1>5, <1>6, <1>7, <1>8, <1>9, <1>10, <1>11, <1>12, WriteKeeps DEF ReadOnceMore

\* The record that is deleted is the one that was shown.
LEMMA DeleteRecoveryStep ==
    ASSUME IInv, Telling, NEW shown \in told, DeleteRecovery(shown)
    PROVE  IInv' /\ ReadOnceMore
<1>1. PICK js \in Seq(RawUpTo(made)) : js = Loaded.jobs
  BY LoadedFacts DEF IInv
<1>2. PICK old \in Seq(RecordUpTo(made)) : old = Loaded.recovery
  BY LoadedFacts DEF IInv
<1>3. /\ Clean(js, old) /\ Len(js) + Len(old) <= Limit /\ owned \subseteq Contents(js, old)
      /\ made \in Nat /\ drafts \in Seq(DraftUpTo(made)) /\ file \in Work(made)
  BY <1>1, <1>2, LoadedFacts DEF IInv, TypeOK
<1>4. PICK rs : rs = Only(old, {r \in ToSet(old) : r.id # shown[1]})
  OBVIOUS
<1>5. /\ rs \in Seq(RecordUpTo(made)) /\ Len(rs) <= Len(old)
      /\ ToSet(rs) = ToSet(old) \cap {r \in ToSet(old) : r.id # shown[1]}
      /\ Unlike(rs) /\ Named(rs)
  BY <1>3, <1>4, OnlyKeeps DEF Clean
<1>6. Clean(js, rs)
  BY <1>3, <1>5 DEF Clean
<1>7. Len(js) + Len(rs) <= Limit
  <2>1. Len(js) \in Nat /\ Len(old) \in Nat /\ Len(rs) \in Nat
    BY <1>5
  <2> QED BY <1>3, <1>5, <2>1
<1>8. /\ Write(js, rs) /\ file' = file /\ made' = made /\ drafts' = drafts
      /\ owned' = owned \ {shown[2]}
  BY <1>1, <1>2, <1>4 DEF DeleteRecovery
<1>9. owned' \subseteq Contents(js, rs)
  <2> SUFFICES ASSUME NEW c \in owned' PROVE c \in Contents(js, rs)
    OBVIOUS
  <2>1. c \in owned /\ c # shown[2]
    BY <1>8
  <2>2. CASE \E j \in ToSet(js) : j.content = c
    BY <2>2 DEF Contents
  <2>3. CASE \E r \in ToSet(old) : r.data.content = c
    <3>1. PICK r \in ToSet(old) : r.data.content = c
      BY <2>3
    <3>2. <<r.id, c>> \in told
      BY <1>2, <3>1 DEF IInv, Shown
    <3>3. r.id # shown[1]
      <4>1. r.id = shown[1] => <<r.id, c>> = shown
        BY <3>2 DEF IInv, Shown
      <4> QED BY <2>1, <4>1
    <3> QED BY <1>5, <3>1, <3>3 DEF Contents
  <2> QED BY <1>3, <2>1, <2>2, <2>3 DEF Contents
<1>10. \A r \in ToSet(rs) : r \in ToSet(Loaded.recovery)
  BY <1>2, <1>5
<1>11. file' \in Work(made) /\ made <= made /\ drafts' \in Seq(DraftUpTo(made))
  BY <1>3, <1>8
<1> QED BY <1>3, <1>5, <1>6, <1>7, <1>8, <1>9, <1>10, <1>11, WriteKeeps DEF ReadOnceMore

LEMMA ExportRecoveryStep ==
    ASSUME IInv, Telling, NEW r \in ToSet(Loaded.recovery), NEW repaired \in BOOLEAN,
           ExportRecovery(r, repaired)
    PROVE  IInv' /\ ReadOnceMore
<1>1. r \in RecordUpTo(made)
  BY LoadedFacts, Members DEF IInv
<1>2. PICK raw : raw = IF repaired THEN [r.data EXCEPT !.hurt = "no"] ELSE r.data
  OBVIOUS
<1>3. raw \in RawUpTo(made)
  <2>1. r.data \in RawUpTo(made)
    BY <1>1 DEF RecordUpTo
  <2>2. [r.data EXCEPT !.hurt = "no"] \in RawUpTo(made)
    BY <2>1 DEF RawUpTo
  <2> QED BY <1>2, <2>1, <2>2
<1>4. /\ file' = [jobs |-> <<raw>>, recovery |-> <<>>] /\ UNCHANGED stored /\ drafts' = drafts
      /\ made' = made /\ owned' = owned
  BY <1>2 DEF ExportRecovery
<1>5. file' \in Work(made)
  BY <1>3, <1>4 DEF Work
<1>6. drafts' \in Seq(DraftUpTo(made))
  BY <1>4 DEF IInv, TypeOK
<1> QED BY <1>4, <1>5, <1>6, ReadKeeps DEF ReadOnceMore


\* New tasks, before those that are there, and new records after them.
LEMMA AddKeeps ==
    ASSUME IInv, Telling, NEW m \in Nat, made <= m, made' = m,
           NEW tasks \in Seq(RawUpTo(m)), NEW records \in Seq(RecordUpTo(m)),
           Clean(tasks, records), \A j \in ToSet(tasks) : j.id \notin Ids(Loaded.jobs),
           \A r \in ToSet(records) : r.id \notin NameUpTo(made),
           Write(tasks \o Loaded.jobs, Loaded.recovery \o records),
           Held(Loaded) + Len(tasks) + Len(records) <= Limit,
           owned' \subseteq owned \cup Contents(tasks, records),
           drafts' = drafts, file' = file
    PROVE  IInv' /\ ReadOnceMore
<1>1. PICK old \in Seq(RawUpTo(m)) : old = Loaded.jobs
  BY LoadedFacts, MoreNames DEF IInv, TypeOK
<1>2. PICK shown \in Seq(RecordUpTo(m)) : shown = Loaded.recovery
  BY LoadedFacts, MoreNames DEF IInv, TypeOK
<1>3. /\ Clean(old, shown) /\ owned \subseteq Contents(old, shown)
      /\ Len(old) + Len(shown) + Len(tasks) + Len(records) <= Limit
  BY <1>1, <1>2, LoadedFacts DEF IInv, Held
<1>4. /\ Unlike(old) /\ Unlike(shown) /\ Named(shown) /\ Unlike(tasks) /\ Unlike(records)
      /\ Named(records)
  BY <1>3 DEF Clean
<1>5. \A x \in ToSet(tasks), y \in ToSet(old) : x.id # y.id
  BY <1>1 DEF Ids
<1>6. \A y \in ToSet(shown) : y.id \in NameUpTo(made)
  <2>1. Loaded.recovery \in Seq(RecordUpTo(made))
    BY LoadedFacts DEF IInv
  <2>2. \A y \in ToSet(shown) : y \in RecordUpTo(made)
    BY <1>2, <2>1, Members
  <2> QED BY <2>2 DEF RecordUpTo
<1>7. \A x \in ToSet(shown), y \in ToSet(records) : x.id # y.id
  BY <1>6
<1>8. PICK js : js = tasks \o old
  OBVIOUS
<1>9. PICK rs : rs = shown \o records
  OBVIOUS
<1>10. /\ js \in Seq(RawUpTo(m)) /\ Len(js) = Len(tasks) + Len(old)
       /\ ToSet(js) = ToSet(tasks) \cup ToSet(old) /\ Unlike(js)
  BY <1>4, <1>5, <1>8, Joined
<1>11. /\ rs \in Seq(RecordUpTo(m)) /\ Len(rs) = Len(shown) + Len(records)
       /\ ToSet(rs) = ToSet(shown) \cup ToSet(records) /\ Unlike(rs) /\ Named(rs)
  BY <1>4, <1>7, <1>9, Joined
<1>12. Clean(js, rs)
  <2>1. \A j \in ToSet(js) : Whole(j)
    BY <1>3, <1>10 DEF Clean, ToSet
  <2>2. \A i \in DOMAIN js : js[i] \in ToSet(js)
    BY DEF ToSet
  <2> QED BY <1>10, <1>11, <2>1, <2>2 DEF Clean
<1>13. Len(js) + Len(rs) <= Limit
  <2>1. Len(old) \in Nat /\ Len(shown) \in Nat /\ Len(tasks) \in Nat /\ Len(records) \in Nat
    OBVIOUS
  <2> QED BY <1>3, <1>10, <1>11, <2>1
<1>14. Write(js, rs)
  BY <1>1, <1>2, <1>8, <1>9
<1>15. owned' \subseteq Contents(js, rs)
  <2>1. Contents(js, rs) = Contents(old, shown) \cup Contents(tasks, records)
    <3>1. ASSUME NEW c
          PROVE  c \in Contents(js, rs) <=> c \in Contents(old, shown) \/ c \in Contents(tasks, records)
      BY <1>10, <1>11 DEF Contents
    <3> QED BY <3>1
  <2> QED BY <1>3, <2>1
<1>16. \A r \in ToSet(rs) : r \in ToSet(Loaded.recovery) \/ r.id \notin NameUpTo(made)
  BY <1>2, <1>11
<1>17. drafts' \in Seq(DraftUpTo(m)) /\ file' \in Work(m)
  BY MoreNames DEF IInv, TypeOK
<1> QED BY <1>10, <1>11, <1>12, <1>13, <1>14, <1>15, <1>16, <1>17, WriteKeeps DEF ReadOnceMore

LEMMA HeldFacts ==
    ASSUME IInv PROVE Held(Loaded) \in Nat
<1>1. PICK p \in Nat : p = Len(Loaded.jobs)
  BY LoadedFacts DEF IInv
<1>2. PICK q \in Nat : q = Len(Loaded.recovery)
  BY LoadedFacts DEF IInv
<1>3. p + q \in Nat
  OBVIOUS
<1> QED BY <1>1, <1>2, <1>3 DEF Held

LEMMA CreateJobStep ==
    ASSUME IInv, Telling, NEW seed \in Seeds, CreateJob(seed)
    PROVE  IInv' /\ ReadOnceMore
<1>1. seed \in Seq([source : Source, target : Target])
  OBVIOUS
<1>2. PICK n \in Nat : n = Len(seed)
  BY <1>1
<1>3. made \in Nat /\ DOMAIN seed = 1 .. n
  BY <1>1, <1>2 DEF IInv, TypeOK
<1>4. PICK m \in Nat : m = made + 1 + n
  BY <1>3
<1>5. \A i \in 1 .. n : seed[i] \in [source : Source, target : Target]
  BY <1>1, <1>2, ElementOfSeq
<1>6. PICK terms : terms = [i \in 1 .. n |->
                              Term(Local(made + 1 + i), seed[i].source, seed[i].target, TRUE)]
  OBVIOUS
<1>7. \A i \in 1 .. n : made + 1 + i \in Nat /\ made < made + 1 + i /\ made + 1 + i <= m
  BY <1>3, <1>4
<1>8. ASSUME NEW i \in 1 .. n
      PROVE  /\ terms[i] \in TermUpTo(m) /\ terms[i].id # NoID
             /\ terms[i].id = Local(made + 1 + i) /\ terms[i].source = seed[i].source
  <2>1. Local(made + 1 + i) \in NameUpTo(m) /\ Local(made + 1 + i) # NoID
    BY <1>3, <1>7, NewName
  <2>2. terms[i] = Term(Local(made + 1 + i), seed[i].source, seed[i].target, TRUE)
    BY <1>6
  <2> QED BY <1>5, <2>1, <2>2 DEF Term, TermUpTo
<1>9. terms \in Seq(TermUpTo(m)) /\ Len(terms) = n
  <2>1. terms \in [1 .. n -> TermUpTo(m)]
    BY <1>6, <1>8
  <2> QED BY <2>1, Listed
<1>10. DOMAIN terms = 1 .. n
  BY <1>9
<1>11. Named(terms)
  BY <1>8, <1>10 DEF Named
<1>12. TermsValid(terms)
  <2>1. \A i, k \in 1 .. n : i # k => seed[i].source # seed[k].source
    BY <1>3 DEF CreateJob, Distinct
  <2>2. \A i, k \in 1 .. n : i # k => Local(made + 1 + i) # Local(made + 1 + k)
    <3> SUFFICES ASSUME NEW i \in 1 .. n, NEW k \in 1 .. n,
                        Local(made + 1 + i) = Local(made + 1 + k)
                 PROVE  i = k
      OBVIOUS
    <3>1. made + 1 + i = made + 1 + k
      BY <1>3, <1>7, NewName
    <3> QED BY <1>3, <3>1
  <2> QED BY <1>8, <1>10, <2>1, <2>2 DEF TermsValid
<1>13. PICK raw : raw = Raw(Local(made + 1), <<made + 1>>, "new", "no", terms)
  OBVIOUS
<1>14. /\ Local(made + 1) \in NameUpTo(m) /\ Local(made + 1) # NoID
       /\ Local(made + 1) \notin NameUpTo(made) /\ <<made + 1>> \in Seq(Nat)
  <2>1. made + 1 \in Nat /\ made < made + 1 /\ made + 1 <= m
    BY <1>3, <1>4
  <2> QED BY <1>3, <2>1, NewName
<1>15. /\ raw \in RawUpTo(m) /\ Whole(raw) /\ raw.id \notin NameUpTo(made)
       /\ raw.content = <<made + 1>>
  BY <1>9, <1>11, <1>12, <1>13, <1>14 DEF Raw, RawUpTo, Whole
<1>16. PICK tasks : tasks = <<raw>>
  OBVIOUS
<1>17. /\ tasks \in Seq(RawUpTo(m)) /\ Len(tasks) = 1 /\ DOMAIN tasks = {1} /\ tasks[1] = raw
  BY <1>15, <1>16
<1>18. ToSet(tasks) = {raw}
  BY <1>17 DEF ToSet
<1>19. Clean(tasks, <<>>)
  BY <1>15, <1>17 DEF Clean, Unlike, Named
<1>20. raw.id \notin Ids(Loaded.jobs)
  <2>1. \A j \in ToSet(Loaded.jobs) : j \in RawUpTo(made)
    BY LoadedFacts, Members DEF IInv
  <2> QED BY <1>15, <2>1 DEF Ids, RawUpTo
<1>21. PICK records \in Seq(RecordUpTo(m)) : records = <<>>
  BY EmptySeq
<1>22. ToSet(records) = {} /\ Len(records) = 0
  BY <1>21 DEF ToSet
<1>23. /\ Held(Loaded) < Limit /\ made' = m /\ Write(tasks \o Loaded.jobs, Loaded.recovery)
       /\ owned' = owned \cup {<<made + 1>>} /\ drafts' = drafts /\ file' = file
  BY <1>2, <1>3, <1>4, <1>6, <1>13, <1>16 DEF CreateJob
<1>24. Loaded.recovery \o records = Loaded.recovery
  <2>1. Loaded.recovery \in Seq(RecordUpTo(made))
    BY LoadedFacts DEF IInv
  <2> QED BY <1>21, <2>1, ConcatEmptySeq
<1>25. Held(Loaded) + Len(tasks) + Len(records) <= Limit
  <2>1. Held(Loaded) \in Nat
    BY HeldFacts
  <2>2. PICK h \in Nat : h = Held(Loaded)
    BY <2>1
  <2>3. h < Limit /\ Limit \in Nat
    BY <1>23, <2>2
  <2>4. h + 1 + 0 <= Limit
    BY <2>3
  <2> QED BY <1>17, <1>22, <2>2, <2>4
<1>26. owned' \subseteq owned \cup Contents(tasks, records)
  <2>1. raw \in ToSet(tasks) /\ raw.content = <<made + 1>>
    BY <1>15, <1>18
  <2>2. <<made + 1>> \in Contents(tasks, records)
    BY <2>1 DEF Contents
  <2> QED BY <1>23, <2>2
<1>27. made <= m
  BY <1>3, <1>4
<1> QED BY <1>17, <1>18, <1>19, <1>20, <1>21, <1>22, <1>23, <1>24, <1>25, <1>26, <1>27, AddKeeps


\* Tasks of a backup, as many as it has, with names of their own.
Copies(js, i, contents) ==
    /\ js \in Seq(RawUpTo(made + i)) /\ Len(js) = i /\ Clean(js, <<>>)
    /\ \A j \in ToSet(js) : j.id \notin Ids(Loaded.jobs)
    /\ {j.content : j \in ToSet(js)} = contents

LEMMA CopyKeeps ==
    ASSUME IInv, NEW i \in Nat, NEW cs, NEW js, Copies(js, i, cs), NEW j \in RawUpTo(made),
           Whole(j)
    PROVE  Copies(Copy(js, j), i + 1, cs \cup {j.content})
<1>1. made \in Nat /\ made + i \in Nat /\ made + (i + 1) \in Nat
  BY DEF IInv, TypeOK
<1>2. PICK m \in Nat : m = made + (i + 1)
  BY <1>1
<1>3. made + i <= m /\ made <= m /\ made < m /\ made + i < m
  BY <1>1, <1>2
<1>4. js \in Seq(RawUpTo(made + i)) /\ Len(js) = i
  BY DEF Copies
<1>5. \A k \in ToSet(js) : k.id \in NameUpTo(made + i)
  <2>1. \A k \in ToSet(js) : k \in RawUpTo(made + i)
    BY <1>4, Members
  <2> QED BY <2>1 DEF RawUpTo
<1>6. \A k \in ToSet(Loaded.jobs) : k.id \in NameUpTo(made)
  <2>1. \A k \in ToSet(Loaded.jobs) : k \in RawUpTo(made)
    BY LoadedFacts, Members DEF IInv
  <2> QED BY <2>1 DEF RawUpTo
<1>7. js \in Seq(RawUpTo(m))
  BY <1>1, <1>3, <1>4, MoreNames
<1>8. j \in RawUpTo(m)
  <2>1. <<j>> \in Seq(RawUpTo(made))
    OBVIOUS
  <2>2. <<j>> \in Seq(RawUpTo(m))
    BY <1>1, <1>3, <2>1, MoreNames
  <2> QED BY <2>2
<1>9. PICK e : e = IF j.id \in Ids(Loaded.jobs) \cup Ids(js)
                   THEN [j EXCEPT !.id = Local(made + 1 + Len(js))] ELSE j
  OBVIOUS
<1>10. /\ e \in RawUpTo(m) /\ Whole(e) /\ e.content = j.content
       /\ e.id \notin Ids(js) /\ e.id \notin Ids(Loaded.jobs)
  <2>1. CASE j.id \in Ids(Loaded.jobs) \cup Ids(js)
    <3>1. made + 1 + Len(js) = m
      BY <1>1, <1>2, <1>4
    <3>2. e = [j EXCEPT !.id = Local(m)]
      BY <1>9, <2>1, <3>1
    <3>3. /\ Local(m) \in NameUpTo(m) /\ Local(m) # NoID /\ Local(m) \notin NameUpTo(made)
          /\ Local(m) \notin NameUpTo(made + i)
      BY <1>1, <1>3, NewName
    <3>4. e.id = Local(m) /\ e.content = j.content
      BY <1>8, <3>2 DEF RawUpTo
    <3>5. e \in RawUpTo(m)
      BY <1>8, <3>2, <3>3 DEF RawUpTo
    <3>6. Whole(e)
      BY <1>8, <3>2, <3>3 DEF RawUpTo, Whole
    <3>7. e.id \notin Ids(js) /\ e.id \notin Ids(Loaded.jobs)
      BY <1>5, <1>6, <3>3, <3>4 DEF Ids
    <3> QED BY <3>4, <3>5, <3>6, <3>7
  <2>2. CASE j.id \notin Ids(Loaded.jobs) \cup Ids(js)
    BY <1>8, <1>9, <2>2
  <2> QED BY <2>1, <2>2
<1>11. PICK u : u = Append(js, e)
  OBVIOUS
<1>12. Copy(js, j) = u
  BY <1>9, <1>11 DEF Copy
<1>13. u \in Seq(RawUpTo(m)) /\ Len(u) = i + 1 /\ ToSet(u) = ToSet(js) \cup {e} /\ Unlike(u)
  <2>1. Unlike(js)
    BY DEF Copies, Clean
  <2> QED BY <1>4, <1>7, <1>10, <1>11, <2>1, Appended
<1>14. Clean(u, <<>>)
  <2>1. \A k \in ToSet(u) : Whole(k)
    BY <1>10, <1>13 DEF Copies, Clean, ToSet
  <2>2. \A k \in DOMAIN u : u[k] \in ToSet(u)
    BY DEF ToSet
  <2>3. Unlike(<<>>) /\ Named(<<>>)
    BY DEF Unlike, Named
  <2> QED BY <1>13, <2>1, <2>2, <2>3 DEF Clean
<1>15. \A k \in ToSet(u) : k.id \notin Ids(Loaded.jobs)
  BY <1>10, <1>13 DEF Copies
<1>16. {k.content : k \in ToSet(u)} = cs \cup {j.content}
  <2>1. {k.content : k \in ToSet(js)} = cs
    BY DEF Copies
  <2>2. ASSUME NEW c PROVE c \in {k.content : k \in ToSet(u)} <=> c \in cs \cup {j.content}
    BY <1>10, <1>13, <2>1
  <2> QED BY <2>2
<1> QED BY <1>2, <1>12, <1>13, <1>14, <1>15, <1>16 DEF Copies

LEMMA CopiedFacts ==
    ASSUME IInv, NEW js \in Seq(RawUpTo(made)), \A i \in DOMAIN js : Whole(js[i])
    PROVE  Copies(Copied(js), Len(js), {j.content : j \in ToSet(js)})
<1>0. PICK n \in Nat : n = Len(js)
  OBVIOUS
<1> DEFINE F(f) == [i \in 0 .. n |-> IF i = 0 THEN <<>> ELSE Copy(f[i - 1], js[i])]
           copied == CHOOSE f : f = F(f)
<1>1. made \in Nat
  BY DEF IInv, TypeOK
<1>2. PICK V : V = UNION {Seq(RawUpTo(made + i)) : i \in 0 .. n}
  OBVIOUS
<1>3. PICK W : W = [i \in 0 .. n |-> {w \in V : Copies(w, i, Seen(js, i))}]
  OBVIOUS
<1>4. PICK step : step = [i \in 1 .. n |-> [w \in V |-> Copy(w, js[i])]]
  OBVIOUS
<1>5. \A i \in 0 .. n : \A w : w \in W[i] <=> Copies(w, i, Seen(js, i))
  BY <1>2, <1>3 DEF Copies
<1>6. \A i \in 0 .. n : \A w \in W[i] : w \in V
  BY <1>3
<1>7. \A i \in 1 .. n : /\ i \in 0 .. n /\ i - 1 \in 0 .. n /\ i # 0 /\ i - 1 \in Nat
                        /\ (i - 1) + 1 = i /\ js[i] \in RawUpTo(made) /\ Whole(js[i])
  BY <1>0
<1>8. <<>> \in W[0]
  <2>1. <<>> \in Seq(RawUpTo(made + 0)) /\ Len(<<>>) = 0
    BY EmptySeq
  <2>2. Clean(<<>>, <<>>)
    BY DEF Clean, Unlike, Named
  <2>3. ToSet(<<>>) = {}
    BY DEF ToSet
  <2>4. {j.content : j \in ToSet(<<>>)} = Seen(js, 0)
    BY <2>3 DEF Seen
  <2>5. Copies(<<>>, 0, Seen(js, 0))
    BY <2>1, <2>2, <2>3, <2>4 DEF Copies
  <2> QED BY <1>5, <2>5
<1>9. ASSUME NEW i \in 1 .. n, NEW w, w \in W[i - 1] PROVE Copy(w, js[i]) \in W[i]
  <2>1. Copies(w, i - 1, Seen(js, i - 1))
    BY <1>5, <1>7, <1>9
  <2>2. Copies(Copy(w, js[i]), (i - 1) + 1, Seen(js, i - 1) \cup {js[i].content})
    BY <1>7, <2>1, CopyKeeps
  <2>3. Seen(js, i - 1) \cup {js[i].content} = Seen(js, i)
    <3>1. \A k \in 1 .. i : k \in 1 .. i - 1 \/ k = i
      BY <1>7
    <3>2. i \in 1 .. i /\ \A k \in 1 .. i - 1 : k \in 1 .. i
      BY <1>7
    <3> QED BY <3>1, <3>2 DEF Seen
  <2> QED BY <1>5, <1>7, <2>2, <2>3
<1>10. \A i \in 1 .. n : \A w \in W[i - 1] : step[i][w] \in W[i]
  <2> SUFFICES ASSUME NEW i \in 1 .. n, NEW w \in W[i - 1] PROVE step[i][w] \in W[i]
    OBVIOUS
  <2>1. w \in V
    BY <1>6, <1>7
  <2>2. step[i][w] = Copy(w, js[i])
    BY <1>4, <2>1
  <2> QED BY <1>9, <2>2
<1>11. PICK g : Goes(g, n, <<>>, step) /\ \A i \in 0 .. n : g[i] \in W[i]
  BY <1>8, <1>10, Recursion
<1>12. g = F(g)
  <2>1. /\ g = [i \in 0 .. n |-> g[i]] /\ g[0] = <<>> /\ \A i \in 0 .. n : g[i] \in V
        /\ \A i \in 1 .. n : g[i] = step[i][g[i - 1]]
    BY <1>6, <1>11 DEF Goes
  <2>2. \A i \in 1 .. n : g[i] = Copy(g[i - 1], js[i])
    BY <1>4, <1>7, <2>1
  <2>3. ASSUME NEW i \in 0 .. n
        PROVE  g[i] = IF i = 0 THEN <<>> ELSE Copy(g[i - 1], js[i])
    <3>1. CASE i = 0
      BY <3>1, <2>1
    <3>2. CASE i # 0
      BY <3>2, <2>2
    <3> QED BY <3>1, <3>2
  <2> QED BY <2>1, <2>3
<1>13. copied = F(copied)
  BY <1>12
<1>14. Copied(js) = copied[n]
  BY <1>0 DEF Copied
<1>15. PICK h : h = copied
  OBVIOUS
<1>16. h[0] = <<>> /\ \A i \in 1 .. n : h[i] = Copy(h[i - 1], js[i])
  <2>1. h = F(h)
    BY <1>13, <1>15
  <2>2. \A i \in 0 .. n : h[i] = IF i = 0 THEN <<>> ELSE Copy(h[i - 1], js[i])
    BY <2>1
  <2> QED BY <2>2
<1> HIDE DEF copied
<1>17. h[n] \in W[n]
  <2>1. \A i \in 1 .. n : h[i - 1] \in W[i - 1] => h[i] \in W[i]
    BY <1>9, <1>16
  <2>2. h[0] \in W[0]
    BY <1>8, <1>16
  <2>3. \A i \in 0 .. n : h[i] \in W[i]
    BY <2>1, <2>2, Along
  <2> QED BY <2>3
<1>18. Copies(h[n], n, Seen(js, n))
  BY <1>5, <1>17
<1>19. Seen(js, n) = {j.content : j \in ToSet(js)}
  <2>1. DOMAIN js = 1 .. n
    BY <1>0
  <2> QED BY <2>1 DEF Seen, ToSet
<1> QED BY <1>0, <1>14, <1>15, <1>18, <1>19


LEMMA ImportBackupStep ==
    ASSUME IInv, Telling, ImportBackup
    PROVE  IInv' /\ ReadOnceMore
<1>1. made \in Nat /\ file \in Work(made)
  BY DEF IInv, TypeOK
<1>2. PICK new : new = Parsed(file)
  OBVIOUS
<1>3. new \in Work(made) /\ Clean(new.jobs, new.recovery)
  <2>1. file.jobs \in Seq(RawUpTo(made)) /\ file.recovery \in Seq(RecordUpTo(made))
    BY <1>1 DEF Work
  <2>2. Sound(RestoreJobs(file.jobs, 3, file.recovery), made,
              Len(file.jobs) + Len(file.recovery), Contents(file.jobs, file.recovery))
    BY <1>1, <2>1, RestoreKeeps
  <2> QED BY <1>2, <2>2 DEF Sound, Parsed
<1>4. PICK njs \in Seq(RawUpTo(made)) : njs = new.jobs
  BY <1>3 DEF Work
<1>5. PICK nrs \in Seq(RecordUpTo(made)) : nrs = new.recovery
  BY <1>3 DEF Work
<1>6. PICK a \in Nat : a = Len(njs)
  OBVIOUS
<1>7. PICK b \in Nat : b = Len(nrs)
  OBVIOUS
<1>8. Clean(njs, nrs)
  BY <1>3, <1>4, <1>5
<1>9. PICK tasks : tasks = Copied(njs)
  OBVIOUS
<1>10. Copies(tasks, a, {j.content : j \in ToSet(njs)})
  <2>1. \A i \in DOMAIN njs : Whole(njs[i])
    BY <1>8 DEF Clean
  <2> QED BY <1>6, <1>9, <2>1, CopiedFacts
<1>11. PICK m \in Nat : m = made + a + b
  BY <1>1
<1>12. made <= m /\ made + a \in Nat /\ made + a <= m
  BY <1>1, <1>11
<1>13. /\ tasks \in Seq(RawUpTo(m)) /\ Len(tasks) = a /\ Clean(tasks, <<>>)
       /\ \A j \in ToSet(tasks) : j.id \notin Ids(Loaded.jobs)
  <2>1. tasks \in Seq(RawUpTo(made + a))
    BY <1>10 DEF Copies
  <2> QED BY <1>10, <1>12, <2>1, MoreNames DEF Copies
<1>14. PICK records : records = [i \in 1 .. b |-> Record(Local(made + a + i), nrs[i].data)]
  OBVIOUS
<1>15. ASSUME NEW i \in 1 .. b
       PROVE  /\ records[i] \in RecordUpTo(m) /\ records[i].id = Local(made + a + i)
              /\ records[i].id # NoID /\ records[i].id \notin NameUpTo(made)
              /\ records[i].data = nrs[i].data
  <2>1. made + a + i \in Nat /\ made < made + a + i /\ made + a + i <= m
    BY <1>1, <1>11
  <2>2. /\ Local(made + a + i) \in NameUpTo(m) /\ Local(made + a + i) # NoID
        /\ Local(made + a + i) \notin NameUpTo(made)
    BY <1>1, <2>1, NewName
  <2>3. nrs[i] \in RecordUpTo(m)
    <3>1. nrs \in Seq(RecordUpTo(m))
      BY <1>1, <1>12, MoreNames
    <3> QED BY <1>7, <3>1
  <2>4. nrs[i].data \in RawUpTo(m)
    BY <2>3 DEF RecordUpTo
  <2>5. records[i] = [id |-> Local(made + a + i), data |-> nrs[i].data]
    BY <1>14 DEF Record
  <2> QED BY <2>2, <2>4, <2>5 DEF RecordUpTo
<1>16. records \in Seq(RecordUpTo(m)) /\ Len(records) = b
  <2>1. records \in [1 .. b -> RecordUpTo(m)]
    BY <1>14, <1>15
  <2> QED BY <2>1, Listed
<1>17. DOMAIN records = 1 .. b /\ DOMAIN nrs = 1 .. b
  BY <1>7, <1>16
<1>18. Named(records)
  BY <1>15, <1>17 DEF Named
<1>19. Unlike(records)
  <2>1. \A i, k \in 1 .. b : Local(made + a + i) = Local(made + a + k) => i = k
    <3> SUFFICES ASSUME NEW i \in 1 .. b, NEW k \in 1 .. b,
                        Local(made + a + i) = Local(made + a + k)
                 PROVE  i = k
      OBVIOUS
    <3>1. made + a + i \in Nat /\ made + a + k \in Nat /\ made < made + a + i
      BY <1>1
    <3>2. made + a + i = made + a + k
      BY <1>1, <3>1, NewName
    <3> QED BY <1>1, <3>2
  <2> QED BY <1>15, <1>17, <2>1 DEF Unlike
<1>20. Clean(tasks, records)
  BY <1>13, <1>18, <1>19 DEF Clean
<1>21. \A r \in ToSet(records) : r.id \notin NameUpTo(made)
  BY <1>15, <1>17 DEF ToSet
<1>22. Contents(tasks, records) = Contents(njs, nrs)
  <2>1. {j.content : j \in ToSet(tasks)} = {j.content : j \in ToSet(njs)}
    BY <1>10 DEF Copies
  <2>2. ASSUME NEW c
        PROVE  (\E r \in ToSet(records) : c = r.data.content)
                  <=> (\E r \in ToSet(nrs) : c = r.data.content)
    BY <1>15, <1>17 DEF ToSet
  <2>3. {r.data.content : r \in ToSet(records)} = {r.data.content : r \in ToSet(nrs)}
    <3>1. \A r \in ToSet(records) : \E s \in ToSet(nrs) : r.data.content = s.data.content
      BY <2>2
    <3>2. \A s \in ToSet(nrs) : \E r \in ToSet(records) : s.data.content = r.data.content
      BY <2>2
    <3> QED BY <3>1, <3>2
  <2> QED BY <2>1, <2>3 DEF Contents
<1>23. Held(new) = a + b
  BY <1>4, <1>5, <1>6, <1>7 DEF Held
<1>24. /\ Held(Loaded) + Held(new) <= Limit /\ made' = made + Held(new)
       /\ Write(tasks \o Loaded.jobs, Loaded.recovery \o records)
       /\ owned' = owned \cup Contents(njs, nrs) /\ drafts' = drafts /\ file' = file
  BY <1>2, <1>4, <1>5, <1>9, <1>13, <1>14, <1>17 DEF ImportBackup
<1>25. made' = m
  BY <1>1, <1>11, <1>23, <1>24
<1>26. Held(Loaded) + Len(tasks) + Len(records) <= Limit
  <2>1. Held(Loaded) \in Nat
    BY HeldFacts
  <2>2. PICK h \in Nat : h = Held(Loaded)
    BY <2>1
  <2>3. h + (a + b) <= Limit /\ Limit \in Nat
    BY <1>23, <1>24, <2>2
  <2>4. h + a + b <= Limit
    BY <2>3
  <2> QED BY <1>13, <1>16, <2>2, <2>4
<1>27. owned' \subseteq owned \cup Contents(tasks, records)
  BY <1>22, <1>24
<1> QED BY <1>12, <1>13, <1>16, <1>20, <1>21, <1>24, <1>25, <1>26, <1>27, AddKeeps


-----------------------------------------------------------------------------
(* Backups are of the types of a workspace.                                *)

\* A task and the records its drafts have become.
Pair(m) == [job : RawUpTo(m), recovery : Seq(RecordUpTo(m))]

LEMMA PutKeeps ==
    ASSUME IInv, NEW w \in Pair(made), NEW d \in ToSet(drafts)
    PROVE  Put(w, d) \in Pair(made)
<1>1. made \in Nat /\ w.job \in RawUpTo(made) /\ w.recovery \in Seq(RecordUpTo(made))
  BY DEF IInv, TypeOK, Pair
<1>2. w.job.terms \in Seq(TermUpTo(made))
  BY <1>1 DEF RawUpTo
<1>3. CASE d.job # w.job.id
  BY <1>3 DEF Put
<1>4. CASE /\ d.job = w.job.id /\ HasField(w.job.terms, d)
           /\ MayEdit(w.job.terms, d, d.value, MemoryValue(w.job.terms, d))
  <2>1. PICK terms : terms = Edited(w.job.terms, d, d.value)
    OBVIOUS
  <2>2. d.value # Blank
    BY <1>4 DEF MayEdit
  <2>3. d.text = "source" => d.value \in Source
    BY <2>2, DraftFacts
  <2>4. d.text # "source" => d.value \in Target
    BY <2>2, DraftFacts
  <2>5. terms \in Seq(TermUpTo(made))
    BY <1>1, <1>2, <2>1, <2>3, <2>4, EditedFacts
  <2>6. Put(w, d) = [w EXCEPT !.job.terms = terms]
    BY <1>4, <2>1 DEF Put
  <2>7. PICK j : j = [w.job EXCEPT !.terms = terms]
    OBVIOUS
  <2>8. j \in RawUpTo(made)
    BY <1>1, <2>5, <2>7 DEF RawUpTo
  <2>9. Put(w, d) = [w EXCEPT !.job = j]
    BY <2>6, <2>7
  <2> QED BY <2>8, <2>9 DEF Pair
<1>5. CASE /\ d.job = w.job.id
           /\ ~(/\ HasField(w.job.terms, d)
                /\ MayEdit(w.job.terms, d, d.value, MemoryValue(w.job.terms, d)))
  <2>1. PICK rs \in Seq(RecordUpTo(made)) : rs = w.recovery
    BY <1>1
  <2>2. PICK n \in Nat : n = Len(rs)
    OBVIOUS
  <2>3. PICK r : r = DraftRecord(d, n)
    OBVIOUS
  <2>4. PICK raw : raw = Raw(d.job, <<d.term, d.text, d.value>>, "draft", "no", <<>>)
    OBVIOUS
  <2>5. <<d.term, d.text, d.value>> \in Said(made)
    BY DraftFacts DEF Said
  <2>6. <<>> \in Seq(TermUpTo(made)) /\ d.job \in NameUpTo(made)
    BY DraftFacts, EmptySeq
  <2>7. raw \in RawUpTo(made)
    BY <2>4, <2>5, <2>6 DEF Raw, RawUpTo
  <2>8. ID("draft", n) \in NameUpTo(made)
    BY <1>1, IDFacts DEF Kind
  <2>9. r \in RecordUpTo(made)
    BY <2>3, <2>4, <2>7, <2>8 DEF DraftRecord, Record, RecordUpTo
  <2>10. Put(w, d) = [w EXCEPT !.recovery = Append(rs, r)]
    BY <1>5, <2>1, <2>2, <2>3 DEF Put
  <2>11. Append(rs, r) \in Seq(RecordUpTo(made))
    BY <2>9, AppendProperties
  <2> QED BY <2>10, <2>11 DEF Pair
<1> QED BY <1>3, <1>4, <1>5

LEMMA WithDraftsUnfolds ==
    ASSUME IInv, NEW job \in RawUpTo(made), NEW rs \in Seq(RecordUpTo(made))
    PROVE  \E f : /\ WithDrafts(job, rs) = f[Len(drafts)]
                  /\ f[0] = [job |-> job, recovery |-> rs]
                  /\ \A i \in 0 .. Len(drafts) : f[i] \in Pair(made)
                  /\ \A i \in 1 .. Len(drafts) : f[i] = Put(f[i - 1], drafts[i])
<1>0. PICK n \in Nat : n = Len(drafts)
  BY DEF IInv, TypeOK
<1>0a. PICK S : S = Pair(made)
  OBVIOUS
<1>0b. PICK b : b = [job |-> job, recovery |-> rs]
  OBVIOUS
<1>0c. b \in S
  BY <1>0a, <1>0b DEF Pair
<1> DEFINE F(f) == [i \in 0 .. n |-> IF i = 0 THEN b ELSE Put(f[i - 1], drafts[i])]
           put == CHOOSE f : f = F(f)
<1>1. PICK W : W = [i \in 0 .. n |-> S]
  OBVIOUS
<1>2. PICK step : step = [i \in 1 .. n |-> [w \in S |-> Put(w, drafts[i])]]
  OBVIOUS
<1>3. \A i \in 1 .. n : i \in 0 .. n /\ i - 1 \in 0 .. n /\ i # 0
  OBVIOUS
<1>4. ASSUME NEW i \in 1 .. n, NEW w, w \in S PROVE Put(w, drafts[i]) \in S
  <2>1. drafts[i] \in ToSet(drafts)
    BY <1>0 DEF IInv, TypeOK, ToSet
  <2> QED BY <1>0a, <1>4, <2>1, PutKeeps
<1>5. b \in W[0] /\ \A i \in 1 .. n : \A w \in W[i - 1] : step[i][w] \in W[i]
  BY <1>0c, <1>1, <1>2, <1>3, <1>4
<1>6. PICK g : Goes(g, n, b, step) /\ \A i \in 0 .. n : g[i] \in W[i]
  BY <1>5, Recursion
<1>7. g = F(g)
  <2>1. /\ g = [i \in 0 .. n |-> g[i]] /\ g[0] = b /\ \A i \in 0 .. n : g[i] \in S
        /\ \A i \in 1 .. n : g[i] = step[i][g[i - 1]]
    BY <1>1, <1>6 DEF Goes
  <2>2. \A i \in 1 .. n : g[i] = Put(g[i - 1], drafts[i])
    BY <1>2, <1>3, <2>1
  <2>3. ASSUME NEW i \in 0 .. n
        PROVE  g[i] = IF i = 0 THEN b ELSE Put(g[i - 1], drafts[i])
    <3>1. CASE i = 0
      BY <3>1, <2>1
    <3>2. CASE i # 0
      BY <3>2, <2>2
    <3> QED BY <3>1, <3>2
  <2> QED BY <2>1, <2>3
<1>8. put = F(put)
  BY <1>7
<1>9. WithDrafts(job, rs) = put[n]
  BY <1>0b, <1>0 DEF WithDrafts
<1>10. PICK h : h = put
  OBVIOUS
<1>11. h[0] = b /\ \A i \in 1 .. n : h[i] = Put(h[i - 1], drafts[i])
  <2>1. h = F(h)
    BY <1>8, <1>10
  <2>2. \A i \in 0 .. n : h[i] = IF i = 0 THEN b ELSE Put(h[i - 1], drafts[i])
    BY <2>1
  <2> QED BY <2>2
<1> HIDE DEF put
<1>12. \A i \in 1 .. n : h[i - 1] \in W[i - 1] => h[i] \in W[i]
  BY <1>1, <1>3, <1>4, <1>11
<1>13. \A i \in 0 .. n : h[i] \in W[i]
  BY <1>5, <1>11, <1>12, Along
<1>14. \A i \in 0 .. n : h[i] \in S
  BY <1>1, <1>13
<1> QED BY <1>0, <1>0a, <1>0b, <1>9, <1>10, <1>11, <1>14

LEMMA AddType ==
    ASSUME IInv, NEW w \in Work(made), NEW job \in RawUpTo(made)
    PROVE  Add(w, job) \in Work(made)
<1>1. w.jobs \in Seq(RawUpTo(made)) /\ w.recovery \in Seq(RecordUpTo(made))
  BY DEF Work
<1>2. PICK copy : copy = WithDrafts(job, w.recovery)
  OBVIOUS
<1>3. copy \in Pair(made)
  <2>0. PICK rs \in Seq(RecordUpTo(made)) : rs = w.recovery
    BY <1>1
  <2>1. PICK f : /\ WithDrafts(job, rs) = f[Len(drafts)]
                 /\ f[0] = [job |-> job, recovery |-> rs]
                 /\ \A i \in 0 .. Len(drafts) : f[i] \in Pair(made)
                 /\ \A i \in 1 .. Len(drafts) : f[i] = Put(f[i - 1], drafts[i])
    BY WithDraftsUnfolds
  <2>2. Len(drafts) \in Nat
    BY DEF IInv, TypeOK
  <2>3. Len(drafts) \in 0 .. Len(drafts)
    BY <2>2
  <2> QED BY <1>2, <2>0, <2>1, <2>3
<1>4. copy.job \in RawUpTo(made) /\ copy.recovery \in Seq(RecordUpTo(made))
  BY <1>3 DEF Pair
<1>5. Append(w.jobs, copy.job) \in Seq(RawUpTo(made))
  BY <1>1, <1>4, AppendProperties
<1>6. Add(w, job) = [jobs |-> Append(w.jobs, copy.job), recovery |-> copy.recovery]
  BY <1>2 DEF Add
<1> QED BY <1>4, <1>5, <1>6 DEF Work

LEMMA SnapshotUnfolds ==
    ASSUME IInv, NEW js \in Seq(RawUpTo(made))
    PROVE  \E f : /\ Snapshot(js) = f[Len(js)] /\ f[0] = Nothing
                  /\ \A i \in 0 .. Len(js) : f[i] \in Work(made)
                  /\ \A i \in 1 .. Len(js) : f[i] = Add(f[i - 1], js[i])
<1>0. PICK n \in Nat : n = Len(js)
  OBVIOUS
<1>0a. PICK S : S = Work(made)
  OBVIOUS
<1>0c. Nothing \in S
  BY <1>0a, EmptySeq DEF Work, Nothing
<1> DEFINE F(f) == [i \in 0 .. n |-> IF i = 0 THEN Nothing ELSE Add(f[i - 1], js[i])]
           added == CHOOSE f : f = F(f)
<1>1. PICK W : W = [i \in 0 .. n |-> S]
  OBVIOUS
<1>2. PICK step : step = [i \in 1 .. n |-> [w \in S |-> Add(w, js[i])]]
  OBVIOUS
<1>3. \A i \in 1 .. n : i \in 0 .. n /\ i - 1 \in 0 .. n /\ i # 0
  OBVIOUS
<1>4. ASSUME NEW i \in 1 .. n, NEW w, w \in S PROVE Add(w, js[i]) \in S
  <2>1. js[i] \in RawUpTo(made)
    BY <1>0
  <2> QED BY <1>0a, <1>4, <2>1, AddType
<1>5. Nothing \in W[0] /\ \A i \in 1 .. n : \A w \in W[i - 1] : step[i][w] \in W[i]
  BY <1>0c, <1>1, <1>2, <1>3, <1>4
<1>6. PICK g : Goes(g, n, Nothing, step) /\ \A i \in 0 .. n : g[i] \in W[i]
  BY <1>5, Recursion
<1>7. g = F(g)
  <2>1. /\ g = [i \in 0 .. n |-> g[i]] /\ g[0] = Nothing /\ \A i \in 0 .. n : g[i] \in S
        /\ \A i \in 1 .. n : g[i] = step[i][g[i - 1]]
    BY <1>1, <1>6 DEF Goes
  <2>2. \A i \in 1 .. n : g[i] = Add(g[i - 1], js[i])
    BY <1>2, <1>3, <2>1
  <2>3. ASSUME NEW i \in 0 .. n
        PROVE  g[i] = IF i = 0 THEN Nothing ELSE Add(g[i - 1], js[i])
    <3>1. CASE i = 0
      BY <3>1, <2>1
    <3>2. CASE i # 0
      BY <3>2, <2>2
    <3> QED BY <3>1, <3>2
  <2> QED BY <2>1, <2>3
<1>8. added = F(added)
  BY <1>7
<1>9. Snapshot(js) = added[n]
  BY <1>0 DEF Snapshot
<1>10. PICK h : h = added
  OBVIOUS
<1>11. h[0] = Nothing /\ \A i \in 1 .. n : h[i] = Add(h[i - 1], js[i])
  <2>1. h = F(h)
    BY <1>8, <1>10
  <2>2. \A i \in 0 .. n : h[i] = IF i = 0 THEN Nothing ELSE Add(h[i - 1], js[i])
    BY <2>1
  <2> QED BY <2>2
<1> HIDE DEF added
<1>12. \A i \in 1 .. n : h[i - 1] \in W[i - 1] => h[i] \in W[i]
  BY <1>1, <1>3, <1>4, <1>11
<1>13. \A i \in 0 .. n : h[i] \in W[i]
  BY <1>5, <1>11, <1>12, Along
<1>14. \A i \in 0 .. n : h[i] \in S
  BY <1>1, <1>13
<1> QED BY <1>0, <1>0a, <1>9, <1>10, <1>11, <1>14

LEMMA BackupType ==
    ASSUME IInv, NEW js \in Seq(RawUpTo(made)), NEW rs \in Seq(RecordUpTo(made))
    PROVE  Backup(js, rs) \in Work(made)
<1>1. PICK s : s = Snapshot(js)
  OBVIOUS
<1>2. s.jobs \in Seq(RawUpTo(made)) /\ s.recovery \in Seq(RecordUpTo(made))
  <2>1. PICK f : Snapshot(js) = f[Len(js)] /\ \A i \in 0 .. Len(js) : f[i] \in Work(made)
    BY SnapshotUnfolds
  <2>2. Len(js) \in 0 .. Len(js)
    OBVIOUS
  <2>3. s \in Work(made)
    BY <1>1, <2>1, <2>2
  <2> QED BY <2>3 DEF Work
<1>3. rs \o s.recovery \in Seq(RecordUpTo(made))
  BY <1>2, ConcatProperties
<1>4. Backup(js, rs) = [jobs |-> s.jobs, recovery |-> rs \o s.recovery]
  BY <1>1 DEF Backup
<1> QED BY <1>2, <1>3, <1>4 DEF Work

LEMMA ExportBackupStep ==
    ASSUME IInv, Telling, ExportBackup
    PROVE  IInv' /\ ReadOnceMore
<1>1. Loaded.jobs \in Seq(RawUpTo(made)) /\ Loaded.recovery \in Seq(RecordUpTo(made))
  BY LoadedFacts DEF IInv
<1>2. UNCHANGED stored /\ drafts' = drafts /\ made' = made /\ owned' = owned
  BY DEF ExportBackup
<1>3. file' \in Work(made)
  <2>1. CASE file' = Backup(Loaded.jobs, Loaded.recovery)
    BY <1>1, <2>1, BackupType
  <2>2. ASSUME NEW j \in ToSet(Loaded.jobs), file' = Backup(<<j>>, <<>>)
        PROVE  file' \in Work(made)
    <3>1. j \in RawUpTo(made)
      BY <1>1, Members
    <3>2. <<j>> \in Seq(RawUpTo(made)) /\ <<>> \in Seq(RecordUpTo(made))
      BY <3>1, EmptySeq
    <3> QED BY <2>2, <3>2, BackupType
  <2> QED BY <2>1, <2>2 DEF ExportBackup
<1>4. drafts' \in Seq(DraftUpTo(made))
  BY <1>2 DEF IInv, TypeOK
<1> QED BY <1>2, <1>3, <1>4, ReadKeeps DEF ReadOnceMore


-----------------------------------------------------------------------------
(* The theorems.                                                           *)

LEMMA InitKeeps == Init => IInv
<1> SUFFICES ASSUME Init PROVE IInv
  OBVIOUS
<1>1. PICK n \in 0 .. Limit - Len(recovery), seed \in {s \in Seeds : Distinct(s)} :
      \E name \in [1 .. n -> 1 .. n], hurt \in [1 .. n -> {"no", "log", "text"}] :
         /\ \A i \in 1 .. n : name[i] <= i
         /\ jobs = [i \in 1 .. n |->
                      Raw(Local(name[i]), <<i>>, IF version = 1 THEN "old" ELSE "new", hurt[i],
                          [k \in DOMAIN seed |->
                              Term(NoID, seed[k].source, seed[k].target, FALSE)])]
  BY DEF Init
<1>2. PICK name \in [1 .. n -> 1 .. n], hurt \in [1 .. n -> {"no", "log", "text"}] :
         jobs = [i \in 1 .. n |->
                   Raw(Local(name[i]), <<i>>, IF version = 1 THEN "old" ELSE "new", hurt[i],
                       [k \in DOMAIN seed |->
                           Term(NoID, seed[k].source, seed[k].target, FALSE)])]
  BY <1>1
<1>3. made = Limit /\ made \in Nat /\ version \in {1, 3} /\ drafts = <<>> /\ file = Nothing
  BY DEF Init
<1>4. recovery \in Seq(RecordUpTo(made)) /\ Len(recovery) \in {0, 1}
  <2>1. PICK r : r = Record(ID("recovery", 0), Raw(NoID, <<0>>, "new", "text", <<>>))
    OBVIOUS
  <2>2. ID("recovery", 0) \in NameUpTo(made)
    BY <1>3, IDFacts DEF Kind
  <2>3. <<0>> \in Seq(Nat) /\ <<>> \in Seq(TermUpTo(made)) /\ NoID \in NameUpTo(made)
    BY EmptySeq DEF NameUpTo
  <2>4. Raw(NoID, <<0>>, "new", "text", <<>>) \in RawUpTo(made)
    BY <2>3 DEF Raw, RawUpTo
  <2>5. r \in RecordUpTo(made)
    BY <2>1, <2>2, <2>4 DEF Record, RecordUpTo
  <2>6. recovery = <<>> \/ recovery = <<r>>
    BY <2>1 DEF Init
  <2>7. <<r>> \in Seq(RecordUpTo(made)) /\ Len(<<r>>) = 1
    BY <2>5
  <2>8. <<>> \in Seq(RecordUpTo(made)) /\ Len(<<>>) = 0
    BY EmptySeq
  <2> QED BY <2>6, <2>7, <2>8
<1>5. n \in Nat /\ n + Len(recovery) <= Limit /\ n <= made
  BY <1>3, <1>4
<1>6. PICK terms : terms = [k \in DOMAIN seed |->
                              Term(NoID, seed[k].source, seed[k].target, FALSE)]
  OBVIOUS
<1>7. terms \in Seq(TermUpTo(made))
  <2>1. seed \in Seq([source : Source, target : Target])
    OBVIOUS
  <2>2. PICK l \in Nat : l = Len(seed)
    BY <2>1
  <2>3. DOMAIN seed = 1 .. l
    BY <2>1, <2>2
  <2>4. \A k \in 1 .. l : seed[k] \in [source : Source, target : Target]
    BY <2>1, <2>2, ElementOfSeq
  <2>5. \A k \in 1 .. l : Term(NoID, seed[k].source, seed[k].target, FALSE) \in TermUpTo(made)
    BY <2>4 DEF Term, TermUpTo, NameUpTo
  <2>6. terms \in [1 .. l -> TermUpTo(made)]
    BY <1>6, <2>3, <2>5
  <2> QED BY <2>6, Listed
<1>8. PICK form : form = IF version = 1 THEN "old" ELSE "new"
  OBVIOUS
<1>9. jobs = [i \in 1 .. n |-> Raw(Local(name[i]), <<i>>, form, hurt[i], terms)]
  BY <1>2, <1>6, <1>8
<1>10. ASSUME NEW i \in 1 .. n
       PROVE  Raw(Local(name[i]), <<i>>, form, hurt[i], terms) \in RawUpTo(made)
  <2>1. name[i] \in Nat /\ name[i] <= made
    BY <1>3, <1>5
  <2>2. Local(name[i]) \in NameUpTo(made)
    BY <1>3, <2>1, IDFacts DEF Local, Kind
  <2>3. <<i>> \in Seq(Nat) /\ form \in {"new", "old", "draft"} /\ hurt[i] \in {"no", "log", "text"}
    BY <1>8
  <2> QED BY <1>7, <2>2, <2>3 DEF Raw, RawUpTo
<1>11. jobs \in Seq(RawUpTo(made)) /\ Len(jobs) = n
  <2>1. jobs \in [1 .. n -> RawUpTo(made)]
    BY <1>9, <1>10
  <2> QED BY <1>5, <2>1, Listed
<1>12. TypeOK
  <2>1. <<>> \in Seq(DraftUpTo(made)) /\ Nothing \in Work(made)
    BY EmptySeq DEF Work, Nothing
  <2> QED BY <1>3, <1>4, <1>11, <2>1 DEF TypeOK
<1>13. Shown
  <2>1. PICK rs \in Seq(RecordUpTo(made)) : rs = Loaded.recovery
    BY <1>12, LoadedFacts
  <2>2. Unlike(rs)
    BY <1>12, <2>1, LoadedFacts DEF Clean
  <2>3. told = {<<r.id, r.data.content>> : r \in ToSet(rs)}
    BY <2>1 DEF Init
  <2>4. \A r \in ToSet(rs) : r.id \in NameUpTo(made)
    <3>1. \A r \in ToSet(rs) : r \in RecordUpTo(made)
      BY Members
    <3> QED BY <3>1 DEF RecordUpTo
  <2>5. \A r, s \in ToSet(rs) : r.id = s.id => r = s
    BY <2>2, UnlikeApart
  <2>6. \A a \in told : a[1] \in NameUpTo(made)
    BY <2>3, <2>4
  <2>7. \A a, b \in told : a[1] = b[1] => a = b
    <3> SUFFICES ASSUME NEW a \in told, NEW b \in told, a[1] = b[1] PROVE a = b
      OBVIOUS
    <3>1. PICK r \in ToSet(rs) : a = <<r.id, r.data.content>>
      BY <2>3
    <3>2. PICK s \in ToSet(rs) : b = <<s.id, s.data.content>>
      BY <2>3
    <3>3. r = s
      BY <2>5, <3>1, <3>2
    <3> QED BY <3>1, <3>2, <3>3
  <2> QED BY <2>1, <2>3, <2>6, <2>7 DEF Shown
<1>14. owned \subseteq Contents(jobs, recovery)
  BY DEF Init
<1> QED BY <1>5, <1>11, <1>12, <1>13, <1>14 DEF IInv

LEMMA EditKeeps ==
    ASSUME IInv, Telling, NEW j \in ToSet(Loaded.jobs), EditTerms(j)
    PROVE  IInv' /\ ReadOnceMore
<1>1. CASE \E terms \in Answered(j.terms) : LearnTerms(j, terms)
  <2>1. PICK a \in Reply \X SUBSET Source : LearnTerms(j, Learned(j.terms, a[1], a[2]))
    BY <1>1 DEF Answered
  <2>2. a[1] \in Reply /\ a[2] \in SUBSET Source
    OBVIOUS
  <2> QED BY <2>1, <2>2, LearnStep
<1>2. CASE \E source \in Source, target \in Target : AddTerm(j, source, target)
  BY <1>2, AddTermStep
<1>3. ASSUME NEW t \in ToSet(j.terms), RemoveTerm(j, t.id) PROVE IInv' /\ ReadOnceMore
  BY <1>3, RemoveTermStep
<1>4. ASSUME NEW t \in ToSet(j.terms), NEW value \in Source \cup {Blank},
             TypeDraft(j, [term |-> t.id, text |-> "source"], value)
      PROVE  IInv' /\ ReadOnceMore
  BY <1>4, TypeDraftStep
<1>5. ASSUME NEW t \in ToSet(j.terms), NEW value \in Target \cup {Blank},
             TypeDraft(j, [term |-> t.id, text |-> "target"], value)
      PROVE  IInv' /\ ReadOnceMore
  BY <1>5, TypeDraftStep
<1>6. CASE \E d \in ToSet(drafts) : SaveDraft(j, d) \/ KeepMine(j, d)
  BY <1>6, SaveDraftStep, KeepMineStep
<1> QED BY <1>1, <1>2, <1>3, <1>4, <1>5, <1>6 DEF EditTerms

LEMMA StepKeeps == IInv /\ [Next]_vars => IInv' /\ (ReadOnceMore \/ UNCHANGED vars)
<1> SUFFICES ASSUME IInv, [Next]_vars PROVE IInv' /\ (ReadOnceMore \/ UNCHANGED vars)
  OBVIOUS
<1>1. CASE UNCHANGED vars
  <2>1. /\ version' = version /\ jobs' = jobs /\ recovery' = recovery /\ drafts' = drafts
        /\ file' = file /\ made' = made /\ owned' = owned /\ told' = told
    BY <1>1 DEF vars, stored
  <2> QED BY <1>1, <2>1 DEF IInv, TypeOK, Shown, Loaded
<1>2. CASE Next
  <2>1. Telling
    BY <1>2 DEF Next, Telling
  <2>2. CASE Manage
    <3>1. CASE \E seed \in Seeds : CreateJob(seed)
      BY <2>1, <3>1, CreateJobStep
    <3>2. CASE \E j \in ToSet(Loaded.jobs) : DeleteJob(j.id)
      BY <2>1, <3>2, DeleteJobStep
    <3>3. CASE \E shown \in told : DeleteRecovery(shown)
      BY <2>1, <3>3, DeleteRecoveryStep
    <3>4. CASE \E r \in ToSet(Loaded.recovery), repaired \in BOOLEAN : ExportRecovery(r, repaired)
      BY <2>1, <3>4, ExportRecoveryStep
    <3>5. CASE ExportBackup
      BY <2>1, <3>5, ExportBackupStep
    <3>6. CASE ImportBackup
      BY <2>1, <3>6, ImportBackupStep
    <3>7. CASE \E d \in ToSet(drafts) : DropDraft(d)
      BY <2>1, <3>7, DropDraftStep
    <3> QED BY <2>2, <3>1, <3>2, <3>3, <3>4, <3>5, <3>6, <3>7 DEF Manage
  <2>3. CASE \E j \in ToSet(Loaded.jobs) : EditTerms(j)
    BY <2>1, <2>3, EditKeeps
  <2> QED BY <1>2, <2>2, <2>3 DEF Next
<1> QED BY <1>1, <1>2

\* In every state the stored data are of their types, no more than the limit, hold
\* what the user has, and were shown under names that tell contents apart.
THEOREM Invariance == Spec => []IInv
<1>1. Init => IInv
  BY InitKeeps
<1>2. IInv /\ [Next]_vars => IInv'
  BY StepKeeps
<1> QED BY <1>1, <1>2, PTL DEF Spec

\* What an operation of workspace.ts stores is read back as it is by the next
\* loadWorkspace, and is never more than a workspace may hold.
THEOREM AlwaysReadBack == Spec => ReadsBack
<1>1. IInv /\ [Next]_vars
         => [stored' # stored => /\ Loaded' = [jobs |-> jobs', recovery |-> recovery']
                                 /\ Held(Loaded') <= Limit]_vars
  BY StepKeeps DEF ReadOnceMore
<1> QED BY <1>1, Invariance, PTL DEF Spec, ReadsBack

\* Whatever was damaged, shared a name or came from a file, what the user has and
\* did not delete is loaded as a task or a record; no record's name stands for two.
THEOREM NothingIsLost == Spec => []NothingLost
<1>1. IInv => NothingLost
  <2> SUFFICES ASSUME IInv PROVE NothingLost
    OBVIOUS
  <2>1. owned \subseteq Contents(Loaded.jobs, Loaded.recovery)
    BY LoadedFacts DEF IInv
  <2> QED BY <2>1 DEF NothingLost, IInv, Shown
<1> QED BY <1>1, Invariance, PTL

\* parseTranslation gives any task terms that validateJob accepts, whatever the
\* model answered, and the terms that were there stay first and unchanged.
THEOREM AnswersCanBeStored == Spec => []LearnStorable
<1>1. IInv => LearnStorable
  <2> SUFFICES ASSUME IInv, NEW j \in ToSet(Loaded.jobs), NEW reply \in Reply,
                      NEW now \in SUBSET Source
               PROVE  /\ TermsValid(Learned(j.terms, reply, now))
                      /\ SubSeq(Learned(j.terms, reply, now), 1, Len(j.terms)) = j.terms
    BY DEF LearnStorable
  <2>1. made \in Nat /\ j.terms \in Seq(TermUpTo(made)) /\ TermsValid(j.terms)
    BY JobFacts DEF IInv, Whole
  <2>2. reply \in Seq([source : Source, target : Target])
    BY RepliesAre
  <2> QED BY <2>1, <2>2, LearnedFacts
<1> QED BY <1>1, Invariance, PTL

-----------------------------------------------------------------------------
(* What goes with a request.                                               *)

LEMMA CostFacts ==
    ASSUME NEW m \in Nat, NEW t \in TermUpTo(m) PROVE Cost(t) \in Nat
BY DEF Cost, TermUpTo

LEMMA SpentUnfolds ==
    ASSUME NEW m \in Nat, NEW s \in Seq(TermUpTo(m))
    PROVE  \E f : /\ Spent(s) = f[Len(s)] /\ f[0] = 0
                  /\ \A i \in 0 .. Len(s) : f[i] \in Nat
                  /\ \A i \in 1 .. Len(s) : f[i] = f[i - 1] + Cost(s[i])
<1>0. PICK n \in Nat : n = Len(s)
  OBVIOUS
<1> DEFINE F(f) == [i \in 0 .. n |-> IF i = 0 THEN 0 ELSE f[i - 1] + Cost(s[i])]
           spent == CHOOSE f : f = F(f)
<1>1. PICK W : W = [i \in 0 .. n |-> Nat]
  OBVIOUS
<1>2. PICK step : step = [i \in 1 .. n |-> [w \in Nat |-> w + Cost(s[i])]]
  OBVIOUS
<1>3. \A i \in 1 .. n : i \in 0 .. n /\ i - 1 \in 0 .. n /\ i # 0
  OBVIOUS
<1>4. \A i \in 1 .. n : Cost(s[i]) \in Nat
  BY <1>0, CostFacts
<1>5. 0 \in W[0] /\ \A i \in 1 .. n : \A w \in W[i - 1] : step[i][w] \in W[i]
  BY <1>1, <1>2, <1>3, <1>4
<1>6. PICK g : Goes(g, n, 0, step) /\ \A i \in 0 .. n : g[i] \in W[i]
  BY <1>5, Recursion
<1>7. g = F(g)
  <2>1. /\ g = [i \in 0 .. n |-> g[i]] /\ g[0] = 0 /\ \A i \in 0 .. n : g[i] \in Nat
        /\ \A i \in 1 .. n : g[i] = step[i][g[i - 1]]
    BY <1>1, <1>6 DEF Goes
  <2>2. \A i \in 1 .. n : g[i] = g[i - 1] + Cost(s[i])
    BY <1>2, <1>3, <2>1
  <2>3. ASSUME NEW i \in 0 .. n PROVE g[i] = IF i = 0 THEN 0 ELSE g[i - 1] + Cost(s[i])
    <3>1. CASE i = 0
      BY <3>1, <2>1
    <3>2. CASE i # 0
      BY <3>2, <2>2
    <3> QED BY <3>1, <3>2
  <2> QED BY <2>1, <2>3
<1>8. spent = F(spent)
  BY <1>7
<1>9. Spent(s) = spent[n]
  BY <1>0 DEF Spent
<1>10. PICK h : h = spent
  OBVIOUS
<1>11. h[0] = 0 /\ \A i \in 1 .. n : h[i] = h[i - 1] + Cost(s[i])
  <2>1. h = F(h)
    BY <1>8, <1>10
  <2>2. \A i \in 0 .. n : h[i] = IF i = 0 THEN 0 ELSE h[i - 1] + Cost(s[i])
    BY <2>1
  <2> QED BY <2>2
<1> HIDE DEF spent
<1>12. \A i \in 0 .. n : h[i] \in Nat
  <2>1. \A i \in 1 .. n : h[i - 1] \in W[i - 1] => h[i] \in W[i]
    BY <1>1, <1>3, <1>4, <1>11
  <2>2. \A i \in 0 .. n : h[i] \in W[i]
    BY <1>5, <1>11, <2>1, Along
  <2> QED BY <1>1, <2>2
<1> QED BY <1>0, <1>9, <1>10, <1>11, <1>12

\* A list of terms costs what its terms cost.
LEMMA SpentFacts ==
    ASSUME NEW m \in Nat, NEW s \in Seq(TermUpTo(m)), NEW t \in TermUpTo(m)
    PROVE  /\ Spent(<<>>) = 0 /\ Spent(s) \in Nat
           /\ Spent(Append(s, t)) = Spent(s) + Cost(t)
<1>1. Spent(<<>>) = 0
  <2>1. <<>> \in Seq(TermUpTo(m)) /\ Len(<<>>) = 0
    OBVIOUS
  <2> QED BY <2>1, SpentUnfolds
<1>2. PICK n \in Nat : n = Len(s)
  OBVIOUS
<1>3. PICK u : u = Append(s, t)
  OBVIOUS
<1>4. u \in Seq(TermUpTo(m)) /\ Len(u) = n + 1 /\ u[n + 1] = t /\ \A i \in 1 .. n : u[i] = s[i]
  BY <1>2, <1>3, AppendProperties
<1>5. PICK f : /\ Spent(s) = f[n] /\ f[0] = 0
               /\ \A i \in 0 .. n : f[i] \in Nat
               /\ \A i \in 1 .. n : f[i] = f[i - 1] + Cost(s[i])
  <2>1. \E f : /\ Spent(s) = f[Len(s)] /\ f[0] = 0
               /\ \A i \in 0 .. Len(s) : f[i] \in Nat
               /\ \A i \in 1 .. Len(s) : f[i] = f[i - 1] + Cost(s[i])
    BY SpentUnfolds
  <2> QED BY <1>2, <2>1
<1>6. PICK g : /\ Spent(u) = g[n + 1] /\ g[0] = 0
               /\ \A i \in 1 .. n + 1 : g[i] = g[i - 1] + Cost(u[i])
  BY <1>4, SpentUnfolds
<1>7. PICK W : W = [i \in 0 .. n |-> {f[i]}]
  OBVIOUS
<1>8. \A i \in 0 .. n : g[i] = f[i]
  <2>1. g[0] \in W[0]
    BY <1>5, <1>6, <1>7
  <2>2. \A i \in 1 .. n : /\ g[i] = g[i - 1] + Cost(s[i]) /\ f[i] = f[i - 1] + Cost(s[i])
                          /\ i \in 0 .. n /\ i - 1 \in 0 .. n
    BY <1>4, <1>5, <1>6
  <2>3. \A i \in 1 .. n : g[i - 1] \in W[i - 1] => g[i] \in W[i]
    BY <1>7, <2>2
  <2>4. \A i \in 0 .. n : g[i] \in W[i]
    BY <2>1, <2>3, Along
  <2> QED BY <1>7, <2>4
<1>9. n + 1 \in 1 .. n + 1 /\ n + 1 - 1 = n /\ n \in 0 .. n
  OBVIOUS
<1>10. Spent(u) = f[n] + Cost(t) /\ f[n] \in Nat
  BY <1>4, <1>5, <1>6, <1>8, <1>9, SMTT(20)
<1> QED BY <1>1, <1>3, <1>5, <1>10


\* What is sorted are the same terms, and what matters more comes first.
LEMMA SortedFacts ==
    ASSUME NEW m \in Nat, NEW c \in Seq(TermUpTo(m)), NEW now
    PROVE  /\ Sorted(c, now) \in Seq(TermUpTo(m)) /\ Len(Sorted(c, now)) = Len(c)
           /\ \A i \in 1 .. Len(c) : \E k \in 1 .. Len(c) : Sorted(c, now)[k] = c[i]
           /\ \A i, k \in 1 .. Len(c) :
                 i < k => Priority(Sorted(c, now)[i], now) <= Priority(Sorted(c, now)[k], now)
<1>1. PICK n \in Nat : n = Len(c)
  OBVIOUS
<1>2. DOMAIN c = 1 .. n /\ \A i \in 1 .. n : c[i] \in TermUpTo(m)
  BY <1>1
<1>3. PICK p : p = [i \in 1 .. n |-> Priority(c[i], now)]
  OBVIOUS
<1>4. PICK z : z = [i \in 1 .. n |-> Size[c[i].source]]
  OBVIOUS
<1>5. \A i \in 1 .. n : p[i] \in 0 .. 3
  BY <1>2, <1>3 DEF Priority
<1>6. \A i \in 1 .. n : z[i] \in Nat
  BY <1>2, <1>4 DEF TermUpTo
<1>7. \A i, k \in 1 .. n :
         Before(c, now, i, k) <=>
            (p[i] < p[k] \/ (p[i] = p[k] /\ (z[i] > z[k] \/ (z[i] = z[k] /\ i < k))))
  BY <1>3, <1>4 DEF Before
<1>8. PICK before : before = [k \in 1 .. n |-> {i \in 1 .. n : Before(c, now, i, k)}]
  OBVIOUS
<1>9. /\ before \in [1 .. n -> SUBSET (1 .. n)]
      /\ \A i, k \in 1 .. n :
            i \in before[k] <=>
               (p[i] < p[k] \/ (p[i] = p[k] /\ (z[i] > z[k] \/ (z[i] = z[k] /\ i < k))))
  BY <1>7, <1>8
<1>10. \A i \in 1 .. n : i \notin before[i]
  BY <1>5, <1>6, <1>9
<1>11. ASSUME NEW i \in 1 .. n, NEW k \in 1 .. n, i \in before[k]
       PROVE  before[i] \subseteq before[k]
  <2> SUFFICES ASSUME NEW j \in 1 .. n, j \in before[i] PROVE j \in before[k]
    BY <1>9
  <2>1. p[i] \in Int /\ p[j] \in Int /\ p[k] \in Int /\ z[i] \in Int /\ z[j] \in Int /\ z[k] \in Int
    BY <1>5, <1>6
  <2>2. p[j] < p[i] \/ (p[j] = p[i] /\ (z[j] > z[i] \/ (z[j] = z[i] /\ j < i)))
    BY <1>9
  <2>3. p[i] < p[k] \/ (p[i] = p[k] /\ (z[i] > z[k] \/ (z[i] = z[k] /\ i < k)))
    BY <1>9, <1>11
  <2>4. p[j] < p[k] \/ (p[j] = p[k] /\ (z[j] > z[k] \/ (z[j] = z[k] /\ j < k)))
    BY <2>1, <2>2, <2>3
  <2> QED BY <1>9, <2>4
<1>12. \A i, k \in 1 .. n : i = k \/ i \in before[k] \/ k \in before[i]
  <2> SUFFICES ASSUME NEW i \in 1 .. n, NEW k \in 1 .. n, i # k
               PROVE  i \in before[k] \/ k \in before[i]
    OBVIOUS
  <2>1. p[i] \in Int /\ p[k] \in Int /\ z[i] \in Int /\ z[k] \in Int /\ i \in Int /\ k \in Int
    BY <1>5, <1>6
  <2>2. \/ p[i] < p[k] \/ (p[i] = p[k] /\ (z[i] > z[k] \/ (z[i] = z[k] /\ i < k)))
        \/ p[k] < p[i] \/ (p[k] = p[i] /\ (z[k] > z[i] \/ (z[k] = z[i] /\ k < i)))
    BY <2>1
  <2> QED BY <1>9, <2>2
<1>13. PICK place : place = [i \in 1 .. n |-> Rank(c, now, i)]
  OBVIOUS
<1>14. \A i \in 1 .. n : place[i] = Cardinality(before[i]) + 1
  BY <1>2, <1>8, <1>13 DEF Rank
<1>15. /\ \A i \in 1 .. n : place[i] \in 1 .. n
       /\ \A j \in 1 .. n : \E i \in 1 .. n : place[i] = j
       /\ \A i, k \in 1 .. n : place[i] = place[k] => i = k
       /\ \A i, k \in 1 .. n : place[i] < place[k] => i \in before[k]
  BY <1>9, <1>10, <1>11, <1>12, <1>14, RanksNumber
<1>16. PICK at : at = [j \in 1 .. n |-> CHOOSE i \in 1 .. n : Rank(c, now, i) = j]
  OBVIOUS
<1>17. \A j \in 1 .. n : at[j] \in 1 .. n /\ place[at[j]] = j
  <2> SUFFICES ASSUME NEW j \in 1 .. n PROVE at[j] \in 1 .. n /\ place[at[j]] = j
    OBVIOUS
  <2>1. \E i \in 1 .. n : Rank(c, now, i) = j
    BY <1>13, <1>15
  <2>2. at[j] \in 1 .. n /\ Rank(c, now, at[j]) = j
    BY <1>16, <2>1
  <2> QED BY <1>13, <2>2
<1>18. PICK s : s = Sorted(c, now)
  OBVIOUS
<1>19. s = [j \in 1 .. n |-> c[at[j]]]
  BY <1>2, <1>16, <1>18 DEF Sorted
<1>20. s \in Seq(TermUpTo(m)) /\ Len(s) = n
  <2>1. s \in [1 .. n -> TermUpTo(m)]
    BY <1>2, <1>17, <1>19
  <2> QED BY <2>1, Listed
<1>21. ASSUME NEW i \in 1 .. n PROVE \E k \in 1 .. n : s[k] = c[i]
  <2>1. PICK k \in 1 .. n : k = place[i]
    BY <1>15
  <2>2. at[k] \in 1 .. n /\ place[at[k]] = place[i]
    BY <1>17, <2>1
  <2>3. at[k] = i
    BY <1>15, <2>2
  <2>4. s[k] = c[i]
    BY <1>19, <2>3
  <2> QED BY <2>4
<1>22. ASSUME NEW i \in 1 .. n, NEW k \in 1 .. n, i < k
       PROVE  Priority(s[i], now) <= Priority(s[k], now)
  <2>1. PICK a \in 1 .. n : a = at[i] /\ place[a] = i
    BY <1>17
  <2>2. PICK b \in 1 .. n : b = at[k] /\ place[b] = k
    BY <1>17
  <2>3. a \in before[b]
    <3>1. place[a] < place[b]
      BY <1>22, <2>1, <2>2
    <3> QED BY <1>15, <3>1
  <2>4. p[a] \in Int /\ p[b] \in Int
    BY <1>5
  <2>5. p[a] < p[b] \/ p[a] = p[b]
    BY <1>9, <2>3
  <2>6. s[i] = c[a] /\ s[k] = c[b]
    BY <1>19, <2>1, <2>2
  <2> QED BY <1>3, <2>4, <2>5, <2>6
<1> QED BY <1>1, <1>18, <1>20, <1>21, <1>22


LEMMA FillType ==
    ASSUME NEW m \in Nat, NEW w \in Seq(TermUpTo(m)), NEW t \in TermUpTo(m)
    PROVE  Fill(w, t) \in Seq(TermUpTo(m))
BY DEF Fill

LEMMA FilledUnfolds ==
    ASSUME NEW m \in Nat, NEW s \in Seq(TermUpTo(m))
    PROVE  \E f : /\ Filled(s) = f[Len(s)] /\ f[0] = <<>>
                  /\ \A i \in 1 .. Len(s) : f[i] = Fill(f[i - 1], s[i])
<1>0. PICK n \in Nat : n = Len(s)
  OBVIOUS
<1>0a. PICK S : S = Seq(TermUpTo(m))
  OBVIOUS
<1> DEFINE F(f) == [i \in 0 .. n |-> IF i = 0 THEN <<>> ELSE Fill(f[i - 1], s[i])]
           filled == CHOOSE f : f = F(f)
<1>1. PICK W : W = [i \in 0 .. n |-> S]
  OBVIOUS
<1>2. PICK step : step = [i \in 1 .. n |-> [w \in S |-> Fill(w, s[i])]]
  OBVIOUS
<1>3. \A i \in 1 .. n : i \in 0 .. n /\ i - 1 \in 0 .. n /\ i # 0
  OBVIOUS
<1>4. ASSUME NEW i \in 1 .. n, NEW w, w \in S PROVE Fill(w, s[i]) \in S
  <2>1. s[i] \in TermUpTo(m)
    BY <1>0
  <2> QED BY <1>0a, <1>4, <2>1, FillType
<1>5. <<>> \in W[0] /\ \A i \in 1 .. n : \A w \in W[i - 1] : step[i][w] \in W[i]
  <2>1. <<>> \in S
    BY <1>0a, EmptySeq
  <2> QED BY <1>1, <1>2, <1>3, <1>4, <2>1
<1>6. PICK g : Goes(g, n, <<>>, step) /\ \A i \in 0 .. n : g[i] \in W[i]
  BY <1>5, Recursion
<1>7. g = F(g)
  <2>1. /\ g = [i \in 0 .. n |-> g[i]] /\ g[0] = <<>> /\ \A i \in 0 .. n : g[i] \in S
        /\ \A i \in 1 .. n : g[i] = step[i][g[i - 1]]
    BY <1>1, <1>6 DEF Goes
  <2>2. \A i \in 1 .. n : g[i] = Fill(g[i - 1], s[i])
    BY <1>2, <1>3, <2>1
  <2>3. ASSUME NEW i \in 0 .. n PROVE g[i] = IF i = 0 THEN <<>> ELSE Fill(g[i - 1], s[i])
    <3>1. CASE i = 0
      BY <3>1, <2>1
    <3>2. CASE i # 0
      BY <3>2, <2>2
    <3> QED BY <3>1, <3>2
  <2> QED BY <2>1, <2>3
<1>8. filled = F(filled)
  BY <1>7
<1>9. Filled(s) = filled[n]
  BY <1>0 DEF Filled
<1>10. PICK h : h = filled
  OBVIOUS
<1>11. h[0] = <<>> /\ \A i \in 1 .. n : h[i] = Fill(h[i - 1], s[i])
  <2>1. h = F(h)
    BY <1>8, <1>10
  <2>2. \A i \in 0 .. n : h[i] = IF i = 0 THEN <<>> ELSE Fill(h[i - 1], s[i])
    BY <2>1
  <2> QED BY <2>2
<1> HIDE DEF filled
<1> QED BY <1>0, <1>9, <1>10, <1>11

\* What is kept, of a list and of a longer one.
LEMMA SpentMore ==
    ASSUME NEW m \in Nat, NEW w \in Seq(TermUpTo(m)), NEW e \in TermUpTo(m), NEW keep
    PROVE  /\ Spent(Only(w, keep)) \in Nat /\ Spent(Only(Append(w, e), keep)) \in Nat
           /\ Spent(Only(w, keep)) <= Spent(Only(Append(w, e), keep))
<1>1. Only(w, keep) \in Seq(TermUpTo(m))
  BY OnlyKeeps
<1>2. PICK o \in Seq(TermUpTo(m)) : o = Only(w, keep)
  BY <1>1
<1>3. Only(Append(w, e), keep) = IF e \in keep THEN Append(o, e) ELSE o
  BY <1>2, OnlyAppended
<1>4. Spent(o) \in Nat /\ Spent(Append(o, e)) = Spent(o) + Cost(e) /\ Cost(e) \in Nat
  BY SpentFacts, CostFacts
<1> QED BY <1>2, <1>3, <1>4

\* Of a list sorted by priority, what is left out had no room beside what matters
\* as much and was chosen.
LEMMA FilledFacts ==
    ASSUME NEW m \in Nat, NEW s \in Seq(TermUpTo(m)), NEW now,
           \A i, k \in 1 .. Len(s) : i < k => Priority(s[i], now) <= Priority(s[k], now),
           NEW K,
           \A k \in 1 .. Len(s) : \A u \in TermUpTo(m) :
              u \in K[k] <=> Priority(u, now) <= Priority(s[k], now)
    PROVE  /\ Filled(s) \in Seq(TermUpTo(m)) /\ Spent(Filled(s)) <= Budget
           /\ \A k \in 1 .. Len(s) :
                 s[k] \in ToSet(Filled(s)) \/ Cost(s[k]) + Spent(Only(Filled(s), K[k])) > Budget
<1>0. PICK n \in Nat : n = Len(s)
  OBVIOUS
<1>1. \A k \in 1 .. n : \A u \in TermUpTo(m) :
         u \in K[k] <=> Priority(u, now) <= Priority(s[k], now)
  BY <1>0
<1>2. PICK f : /\ Filled(s) = f[n] /\ f[0] = <<>>
               /\ \A i \in 1 .. n : f[i] = Fill(f[i - 1], s[i])
  BY <1>0, FilledUnfolds
<1> DEFINE Good(w, i) ==
              /\ w \in Seq(TermUpTo(m)) /\ Spent(w) <= Budget
              /\ \A l \in 1 .. Len(w) : \E k \in 1 .. i : w[l] = s[k]
              /\ \A k \in 1 .. i : s[k] \in ToSet(w) \/ Cost(s[k]) + Spent(Only(w, K[k])) > Budget
<1> HIDE DEF Good
<1>3. PICK W : W = [i \in 0 .. n |-> {w \in Seq(TermUpTo(m)) : Good(w, i)}]
  OBVIOUS
<1>4. f[0] \in W[0]
  <2>1. <<>> \in Seq(TermUpTo(m)) /\ Len(<<>>) = 0
    OBVIOUS
  <2>2. Spent(<<>>) = 0
    BY <2>1, SpentUnfolds
  <2>3. Good(<<>>, 0)
    BY <2>1, <2>2 DEF Good
  <2> QED BY <1>2, <1>3, <2>1, <2>3
<1>5. ASSUME NEW i \in 1 .. n, f[i - 1] \in W[i - 1] PROVE f[i] \in W[i]
  <2>0. i \in 0 .. n /\ i - 1 \in 0 .. n /\ s[i] \in TermUpTo(m)
    BY <1>0
  <2>1. PICK w \in Seq(TermUpTo(m)) : w = f[i - 1] /\ Good(w, i - 1)
    BY <1>3, <1>5, <2>0
  <2>2. PICK e \in TermUpTo(m) : e = s[i]
    BY <2>0
  <2>3. /\ Spent(w) <= Budget
        /\ \A l \in 1 .. Len(w) : \E k \in 1 .. i - 1 : w[l] = s[k]
        /\ \A k \in 1 .. i - 1 :
              s[k] \in ToSet(w) \/ Cost(s[k]) + Spent(Only(w, K[k])) > Budget
    BY <2>1 DEF Good
  <2>4. Spent(w) \in Nat /\ Cost(e) \in Nat /\ Spent(Append(w, e)) = Spent(w) + Cost(e)
    BY SpentFacts, CostFacts
  <2>5. f[i] = IF Spent(w) + Cost(e) <= Budget THEN Append(w, e) ELSE w
    BY <1>2, <2>1, <2>2 DEF Fill
  <2>6. CASE Spent(w) + Cost(e) <= Budget
    <3>1. PICK u : u = Append(w, e)
      OBVIOUS
    <3>2. /\ u \in Seq(TermUpTo(m)) /\ Len(u) = Len(w) + 1 /\ u[Len(w) + 1] = e
          /\ \A l \in 1 .. Len(w) : u[l] = w[l]
      BY <3>1, AppendProperties
    <3>3. ToSet(u) = ToSet(w) \cup {e}
      BY <3>1, Appended
    <3>4. \A l \in 1 .. Len(u) : \E k \in 1 .. i : u[l] = s[k]
      <4> SUFFICES ASSUME NEW l \in 1 .. Len(u) PROVE \E k \in 1 .. i : u[l] = s[k]
        OBVIOUS
      <4>1. CASE l = Len(w) + 1
        BY <4>1, <3>2, <2>2
      <4>2. CASE l # Len(w) + 1
        <5>1. l \in 1 .. Len(w)
          BY <4>2, <3>2
        <5>2. PICK k \in 1 .. i - 1 : w[l] = s[k]
          BY <5>1, <2>3
        <5>3. k \in 1 .. i
          OBVIOUS
        <5> QED BY <5>1, <5>2, <5>3, <3>2
      <4> QED BY <4>1, <4>2
    <3>5. ASSUME NEW k \in 1 .. i
          PROVE  s[k] \in ToSet(u) \/ Cost(s[k]) + Spent(Only(u, K[k])) > Budget
      <4>1. CASE k = i
        BY <4>1, <3>3, <2>2
      <4>2. CASE k # i
        <5>1. k \in 1 .. i - 1 /\ k \in 1 .. n
          BY <4>2
        <5>2. s[k] \in TermUpTo(m)
          BY <1>0, <5>1
        <5>3. Cost(s[k]) \in Nat
          BY <5>2, CostFacts
        <5>4. /\ Spent(Only(w, K[k])) \in Nat /\ Spent(Only(u, K[k])) \in Nat
              /\ Spent(Only(w, K[k])) <= Spent(Only(u, K[k]))
          BY <3>1, SpentMore
        <5>5. s[k] \in ToSet(w) \/ Cost(s[k]) + Spent(Only(w, K[k])) > Budget
          BY <5>1, <2>3
        <5> QED BY <3>3, <5>3, <5>4, <5>5
      <4> QED BY <4>1, <4>2
    <3>6. Spent(u) <= Budget
      BY <2>4, <2>6, <3>1
    <3>7. Good(u, i)
      BY <3>2, <3>4, <3>5, <3>6 DEF Good
    <3> QED BY <1>3, <2>0, <2>5, <2>6, <3>1, <3>2, <3>7
  <2>7. CASE ~(Spent(w) + Cost(e) <= Budget)
    <3>1. \A l \in 1 .. Len(w) : w[l] \in K[i]
      <4> SUFFICES ASSUME NEW l \in 1 .. Len(w) PROVE w[l] \in K[i]
        OBVIOUS
      <4>1. PICK k \in 1 .. i - 1 : w[l] = s[k]
        BY <2>3
      <4>2. k \in 1 .. Len(s) /\ i \in 1 .. Len(s) /\ k < i
        BY <1>0
      <4>3. Priority(s[k], now) <= Priority(s[i], now)
        BY <4>2
      <4>4. w[l] \in TermUpTo(m)
        OBVIOUS
      <4> QED BY <1>1, <4>1, <4>3, <4>4
    <3>2. Only(w, K[i]) = w
      BY <3>1, OnlySame
    <3>3. \A k \in 1 .. i : s[k] \in ToSet(w) \/ Cost(s[k]) + Spent(Only(w, K[k])) > Budget
      <4> SUFFICES ASSUME NEW k \in 1 .. i
                   PROVE  s[k] \in ToSet(w) \/ Cost(s[k]) + Spent(Only(w, K[k])) > Budget
        OBVIOUS
      <4>1. CASE k = i
        BY <4>1, <2>2, <2>4, <2>7, <3>2
      <4>2. CASE k # i
        <5>1. k \in 1 .. i - 1
          BY <4>2
        <5> QED BY <5>1, <2>3
      <4> QED BY <4>1, <4>2
    <3>4. \A l \in 1 .. Len(w) : \E k \in 1 .. i : w[l] = s[k]
      <4>1. \A k \in 1 .. i - 1 : k \in 1 .. i
        OBVIOUS
      <4> QED BY <2>3, <4>1
    <3>5. Good(w, i)
      BY <2>3, <3>3, <3>4 DEF Good
    <3> QED BY <1>3, <2>0, <2>5, <2>7, <3>5
  <2> QED BY <2>6, <2>7
<1>6. \A i \in 1 .. n : f[i - 1] \in W[i - 1] => f[i] \in W[i]
  BY <1>5
<1>7. \A i \in 0 .. n : f[i] \in W[i]
  BY <1>4, <1>6, Along
<1>8. f[n] \in Seq(TermUpTo(m)) /\ Good(f[n], n)
  <2>1. n \in 0 .. n
    OBVIOUS
  <2> QED BY <1>3, <1>7, <2>1
<1>9. PICK w : w = Filled(s)
  OBVIOUS
<1>10. /\ w \in Seq(TermUpTo(m)) /\ Spent(w) <= Budget
       /\ \A k \in 1 .. n : s[k] \in ToSet(w) \/ Cost(s[k]) + Spent(Only(w, K[k])) > Budget
  BY <1>2, <1>8, <1>9 DEF Good
<1> QED BY <1>0, <1>1, <1>9, <1>10

\* selectGlossary keeps to its budget, and a term it leaves out had no room beside
\* the terms it sends that matter as much or more.
THEOREM WhatMattersIsSentFirst == Spec => []SentFirst
<1>1. IInv => SentFirst
  <2> SUFFICES ASSUME IInv, NEW j \in ToSet(Loaded.jobs), NEW now \in SUBSET Source,
                      NEW near \in SUBSET (Source \ now)
               PROVE  LET sent == Selected(j.terms, now, near)
                      IN  /\ Spent(sent) <= Budget
                          /\ \A t \in ToSet(Found(j.terms, now, near)) \ ToSet(sent) :
                                LET before == {u \in ToSet(sent) :
                                                  Priority(u, now) <= Priority(t, now)}
                                IN  Cost(t) + Spent(Only(sent, before)) > Budget
    BY DEF SentFirst
  <2>1. made \in Nat /\ j.terms \in Seq(TermUpTo(made))
    BY JobFacts DEF IInv, TypeOK
  <2>2. PICK m \in Nat : m = made
    BY <2>1
  <2>3. Found(j.terms, now, near) \in Seq(TermUpTo(m))
    BY <2>1, <2>2, OnlyKeeps DEF Found
  <2>4. PICK c \in Seq(TermUpTo(m)) : c = Found(j.terms, now, near)
    BY <2>3
  <2>5. Sorted(c, now) \in Seq(TermUpTo(m))
    BY SortedFacts
  <2>6. PICK s \in Seq(TermUpTo(m)) : s = Sorted(c, now)
    BY <2>5
  <2>7. /\ Len(s) = Len(c) /\ \A i \in 1 .. Len(c) : \E k \in 1 .. Len(c) : s[k] = c[i]
        /\ \A i, k \in 1 .. Len(s) : i < k => Priority(s[i], now) <= Priority(s[k], now)
    BY <2>6, SortedFacts, SMTT(40)
  <2>8. PICK sent : sent = Filled(s)
    OBVIOUS
  <2>8a. PICK K : K = [k \in 1 .. Len(s) |->
                         {u \in TermUpTo(m) : Priority(u, now) <= Priority(s[k], now)}]
    OBVIOUS
  <2>9. /\ sent \in Seq(TermUpTo(m)) /\ Spent(sent) <= Budget
        /\ \A k \in 1 .. Len(s) :
              s[k] \in ToSet(sent) \/ Cost(s[k]) + Spent(Only(sent, K[k])) > Budget
    <3>1. \A k \in 1 .. Len(s) : \A u \in TermUpTo(m) :
             u \in K[k] <=> Priority(u, now) <= Priority(s[k], now)
      BY <2>8a
    <3> QED BY <2>7, <2>8, <3>1, FilledFacts
  <2>10. ASSUME NEW t \in ToSet(c), t \notin ToSet(sent)
         PROVE  Cost(t) + Spent(Only(sent, {u \in ToSet(sent) :
                                   Priority(u, now) <= Priority(t, now)})) > Budget
    <3>1. PICK k \in 1 .. Len(s) : s[k] = t
      BY <2>7 DEF ToSet
    <3>2. PICK keep : /\ keep = {u \in TermUpTo(m) : Priority(u, now) <= Priority(t, now)}
                      /\ keep = K[k]
      BY <2>8a, <3>1
    <3>3. PICK also : also = {u \in ToSet(sent) : Priority(u, now) <= Priority(t, now)}
      OBVIOUS
    <3>4. \A i \in 1 .. Len(sent) : sent[i] \in TermUpTo(m) /\ sent[i] \in ToSet(sent)
      BY <2>9 DEF ToSet
    <3>5. \A i \in 1 .. Len(sent) : sent[i] \in keep <=> sent[i] \in also
      BY <3>2, <3>3, <3>4
    <3>6. Only(sent, keep) = Only(sent, also)
      BY <2>9, <3>5, OnlySame
    <3>7. Cost(t) + Spent(Only(sent, keep)) > Budget
      BY <2>9, <2>10, <3>1, <3>2
    <3> QED BY <3>3, <3>6, <3>7
  <2>11. Selected(j.terms, now, near) = sent
    BY <2>4, <2>6, <2>8 DEF Selected
  <2> QED BY <2>4, <2>9, <2>10, <2>11
<1> QED BY <1>1, Invariance, PTL


-----------------------------------------------------------------------------
(* Backups hold everything.                                                *)

\* A draft belongs to a task that is there, and no field has two.
Drafted ==
    /\ \A d \in ToSet(drafts) : d.job \in Ids(Loaded.jobs)
    /\ \A d, e \in ToSet(drafts) :
          d.job = e.job /\ d.term = e.term /\ d.text = e.text => d = e

\* The value of a field, where terms have names of their own.
LEMMA ValueAt ==
    ASSUME NEW terms, Unlike(terms), NEW f, NEW i \in DOMAIN terms, terms[i].id = f.term
    PROVE  /\ HasField(terms, f)
           /\ MemoryValue(terms, f) = IF f.text = "source" THEN terms[i].source
                                      ELSE terms[i].target
<1>1. terms[i] \in ToSet(terms)
  BY DEF ToSet
<1>2. ASSUME NEW t \in ToSet(terms), t.id = f.term PROVE t = terms[i]
  <2>1. PICK k \in DOMAIN terms : t = terms[k]
    BY DEF ToSet
  <2>2. terms[k].id = terms[i].id
    BY <1>2, <2>1
  <2>3. k = i
    BY <2>2 DEF Unlike
  <2> QED BY <2>1, <2>3
<1>3. HasField(terms, f)
  BY <1>1 DEF HasField
<1>4. (CHOOSE t \in ToSet(terms) : t.id = f.term) = terms[i]
  BY <1>1, <1>2
<1>5. CASE f.text = "source"
  <2>1. MemoryValue(terms, f) = (CHOOSE t \in ToSet(terms) : t.id = f.term).source
    BY <1>5, Zenon DEF MemoryValue
  <2> QED BY <1>3, <1>4, <1>5, <2>1, Zenon
<1>6. CASE f.text # "source"
  <2>1. MemoryValue(terms, f) = (CHOOSE t \in ToSet(terms) : t.id = f.term).target
    BY <1>6, Zenon DEF MemoryValue
  <2> QED BY <1>3, <1>4, <1>6, <2>1, Zenon
<1> QED BY <1>5, <1>6

LEMMA ValidUnlike ==
    ASSUME NEW terms, TermsValid(terms), Named(terms) PROVE Unlike(terms)
<1> SUFFICES ASSUME NEW i \in DOMAIN terms, NEW k \in DOMAIN terms, i # k
             PROVE  terms[i].id # terms[k].id
  BY DEF Unlike
<1>1. terms[i].id # terms[k].id \/ terms[i].id = NoID
  BY DEF TermsValid
<1>2. terms[i].id # NoID
  BY DEF Named
<1> QED BY <1>1, <1>2

\* The field that is edited has the value, all others are as they were.
LEMMA EditedValues ==
    ASSUME NEW terms, Unlike(terms), NEW f, NEW value, HasField(terms, f), NEW g
    PROVE  LET u == Edited(terms, f, value)
           IN  /\ HasField(u, f) /\ MemoryValue(u, f) = value
               /\ HasField(terms, g) => HasField(u, g)
               /\ HasField(terms, g) /\ ~(g.term = f.term /\ g.text = f.text)
                  /\ f.text \in {"source", "target"} /\ g.text \in {"source", "target"}
                     => MemoryValue(u, g) = MemoryValue(terms, g)
<1>1. PICK u : u = Edited(terms, f, value)
  OBVIOUS
<1>2. DOMAIN u = DOMAIN terms
  BY <1>1 DEF Edited
<1>3. ASSUME NEW i \in DOMAIN terms
      PROVE  u[i] = IF terms[i].id # f.term THEN terms[i]
                    ELSE IF f.text = "source" THEN Term(terms[i].id, value, terms[i].target, TRUE)
                    ELSE Term(terms[i].id, terms[i].source, value, TRUE)
  BY <1>1 DEF Edited
<1>4. ASSUME NEW i \in DOMAIN terms
      PROVE  /\ u[i].id = terms[i].id
             /\ terms[i].id # f.term => u[i] = terms[i]
             /\ terms[i].id = f.term /\ f.text = "source"
                   => u[i].source = value /\ u[i].target = terms[i].target
             /\ terms[i].id = f.term /\ f.text # "source"
                   => u[i].source = terms[i].source /\ u[i].target = value
  <2>1. CASE terms[i].id # f.term
    BY <1>3, <2>1
  <2>2. CASE terms[i].id = f.term /\ f.text = "source"
    <3>1. u[i] = Term(terms[i].id, value, terms[i].target, TRUE)
      BY <1>3, <2>2
    <3> QED BY <2>2, <3>1 DEF Term
  <2>3. CASE terms[i].id = f.term /\ f.text # "source"
    <3>1. u[i] = Term(terms[i].id, terms[i].source, value, TRUE)
      BY <1>3, <2>3
    <3> QED BY <2>3, <3>1 DEF Term
  <2> QED BY <2>1, <2>2, <2>3
<1>5. Unlike(u)
  <2> SUFFICES ASSUME NEW i \in DOMAIN terms, NEW k \in DOMAIN terms, i # k
               PROVE  u[i].id # u[k].id
    BY <1>2 DEF Unlike
  <2>1. terms[i].id # terms[k].id
    BY DEF Unlike
  <2>2. u[i].id = terms[i].id /\ u[k].id = terms[k].id
    BY <1>4
  <2> QED BY <2>1, <2>2
<1>6. HasField(u, f) /\ MemoryValue(u, f) = value
  <2>1. PICK i \in DOMAIN terms : terms[i].id = f.term
    BY DEF HasField, ToSet
  <2>2. i \in DOMAIN u /\ u[i].id = f.term
    BY <1>2, <1>4, <2>1
  <2>3. /\ HasField(u, f)
        /\ MemoryValue(u, f) = IF f.text = "source" THEN u[i].source ELSE u[i].target
    BY <1>5, <2>2, ValueAt
  <2> QED BY <1>4, <2>1, <2>3
<1>7. ASSUME HasField(terms, g)
      PROVE  /\ HasField(u, g)
             /\ ~(g.term = f.term /\ g.text = f.text)
                /\ f.text \in {"source", "target"} /\ g.text \in {"source", "target"}
                   => MemoryValue(u, g) = MemoryValue(terms, g)
  <2>1. PICK i \in DOMAIN terms : terms[i].id = g.term
    BY <1>7 DEF HasField, ToSet
  <2>2. i \in DOMAIN u /\ u[i].id = g.term
    BY <1>2, <1>4, <2>1
  <2>3. /\ HasField(u, g)
        /\ MemoryValue(u, g) = IF g.text = "source" THEN u[i].source ELSE u[i].target
    BY <1>5, <2>2, ValueAt
  <2>4. MemoryValue(terms, g) = IF g.text = "source" THEN terms[i].source ELSE terms[i].target
    BY <2>1, ValueAt
  <2> QED BY <1>4, <2>1, <2>3, <2>4
<1> QED BY <1>1, <1>6, <1>7

\* A draft is in its place or in a record.
Kept(job, rs, d) ==
    \/ HasField(job.terms, d) /\ MemoryValue(job.terms, d) = d.value
    \/ \E r \in ToSet(rs) : r.data.content = <<d.term, d.text, d.value>>
\* A task with other terms.
SameBut(new, old) == new = [old EXCEPT !.terms = new.terms]


LEMMA PutFacts ==
    ASSUME IInv, Drafted, NEW w \in Pair(made), Whole(w.job), NEW d \in ToSet(drafts),
           NEW u, u = Put(w, d)
    PROVE  /\ Whole(u.job) /\ SameBut(u.job, w.job) /\ ToSet(w.recovery) \subseteq ToSet(u.recovery)
           /\ d.job = w.job.id => Kept(u.job, u.recovery, d)
           /\ \A e \in ToSet(drafts) :
                 e.job = w.job.id /\ Kept(w.job, w.recovery, e) => Kept(u.job, u.recovery, e)
<1>1. /\ made \in Nat /\ w.job \in RawUpTo(made) /\ w.recovery \in Seq(RecordUpTo(made))
      /\ w = [job |-> w.job, recovery |-> w.recovery]
  BY DEF IInv, TypeOK, Pair
<1>2. PICK job \in RawUpTo(made) : job = w.job
  BY <1>1
<1>3. PICK rs \in Seq(RecordUpTo(made)) : rs = w.recovery
  BY <1>1
<1>4. job.terms \in Seq(TermUpTo(made)) /\ TermsValid(job.terms) /\ Named(job.terms)
  BY <1>2 DEF RawUpTo, Whole
<1>5. CASE d.job # job.id
  <2>1. u = w
    BY <1>2, <1>5 DEF Put
  <2>2. SameBut(w.job, w.job)
    BY <1>1 DEF SameBut, RawUpTo
  <2> QED BY <1>2, <1>5, <2>1, <2>2
<1>6. CASE /\ d.job = job.id /\ HasField(job.terms, d)
           /\ MayEdit(job.terms, d, d.value, MemoryValue(job.terms, d))
  <2>1. PICK terms : terms = Edited(job.terms, d, d.value)
    OBVIOUS
  <2>2. d.value # Blank
    BY <1>6 DEF MayEdit
  <2>3. /\ d.text = "source" => d.value \in Source
        /\ d.text # "source" => d.value \in Target
    BY <2>2, DraftFacts
  <2>4. terms \in Seq(TermUpTo(made)) /\ TermsValid(terms) /\ Named(terms)
    BY <1>1, <1>4, <1>6, <2>1, <2>3, EditedFacts
  <2>5. PICK j : j = [job EXCEPT !.terms = terms]
    OBVIOUS
  <2>6. u.job = j /\ u.recovery = rs
    <3>1. u = [w EXCEPT !.job.terms = terms]
      BY <1>2, <1>6, <2>1 DEF Put
    <3> QED BY <1>1, <1>2, <1>3, <2>5, <3>1
  <2>7. /\ j.id = job.id /\ j.form = job.form /\ j.hurt = job.hurt /\ j.terms = terms
        /\ j = [job EXCEPT !.terms = j.terms]
    BY <2>5 DEF RawUpTo
  <2>8. Whole(j) /\ SameBut(j, job)
    BY <1>2, <2>4, <2>7 DEF Whole, SameBut
  <2>9. Unlike(job.terms)
    BY <1>4, ValidUnlike
  <2>10. Kept(j, rs, d)
    BY <1>6, <2>1, <2>7, <2>9, EditedValues DEF Kept
  <2>11. ASSUME NEW e \in ToSet(drafts), e.job = job.id, Kept(job, rs, e), e # d
         PROVE  Kept(j, rs, e)
    <3>1. ~(e.term = d.term /\ e.text = d.text)
      BY <1>6, <2>11 DEF Drafted
    <3>2. d.text \in {"source", "target"} /\ e.text \in {"source", "target"}
      BY DraftFacts
    <3>3. CASE HasField(job.terms, e) /\ MemoryValue(job.terms, e) = e.value
      <4>1. HasField(terms, e) /\ MemoryValue(terms, e) = MemoryValue(job.terms, e)
        BY <1>6, <2>1, <2>9, <3>1, <3>2, <3>3, EditedValues
      <4> QED BY <2>7, <3>3, <4>1 DEF Kept
    <3>4. CASE \E r \in ToSet(rs) : r.data.content = <<e.term, e.text, e.value>>
      BY <3>4 DEF Kept
    <3> QED BY <2>11, <3>3, <3>4 DEF Kept
  <2> QED BY <1>2, <1>3, <2>6, <2>8, <2>10, <2>11
<1>7. CASE /\ d.job = job.id
           /\ ~(/\ HasField(job.terms, d)
                /\ MayEdit(job.terms, d, d.value, MemoryValue(job.terms, d)))
  <2>1. PICK n \in Nat : n = Len(rs)
    OBVIOUS
  <2>2. PICK r : r = DraftRecord(d, n)
    OBVIOUS
  <2>3. r.data.content = <<d.term, d.text, d.value>>
    BY <2>2 DEF DraftRecord, Record, Raw
  <2>4. u.job = job /\ u.recovery = Append(rs, r)
    <3>1. u = [w EXCEPT !.recovery = Append(rs, r)]
      BY <1>2, <1>3, <1>7, <2>1, <2>2 DEF Put
    <3> QED BY <1>1, <1>2, <1>3, <3>1
  <2>5. Append(rs, r) \in Seq(RecordUpTo(made)) /\ r \in RecordUpTo(made)
    <3>1. u \in Pair(made)
      BY PutKeeps
    <3>2. Append(rs, r) \in Seq(RecordUpTo(made))
      BY <2>4, <3>1 DEF Pair
    <3>3. Append(rs, r)[n + 1] = r /\ n + 1 \in DOMAIN Append(rs, r)
      BY <2>1
    <3> QED BY <3>2, <3>3
  <2>6. ToSet(Append(rs, r)) = ToSet(rs) \cup {r}
    BY <2>5, Appended
  <2>7. SameBut(job, job)
    BY DEF SameBut, RawUpTo
  <2>8. Kept(job, Append(rs, r), d)
    BY <2>3, <2>6 DEF Kept
  <2>9. \A e \in ToSet(drafts) : Kept(job, rs, e) => Kept(job, Append(rs, r), e)
    BY <2>6 DEF Kept
  <2> QED BY <1>2, <1>3, <2>4, <2>6, <2>7, <2>8, <2>9
<1> QED BY <1>2, <1>5, <1>6, <1>7


LEMMA WithDraftsFacts ==
    ASSUME IInv, Drafted, NEW job \in RawUpTo(made), Whole(job), NEW rs \in Seq(RecordUpTo(made)),
           NEW c, c = WithDrafts(job, rs)
    PROVE  /\ c \in Pair(made)
           /\ Whole(c.job) /\ SameBut(c.job, job) /\ ToSet(rs) \subseteq ToSet(c.recovery)
           /\ \A e \in ToSet(drafts) : e.job = job.id => Kept(c.job, c.recovery, e)
<1>1. PICK n \in Nat : n = Len(drafts)
  BY DEF IInv, TypeOK
<1>2. DOMAIN drafts = 1 .. n
  BY <1>1 DEF IInv, TypeOK
<1>3. PICK f : /\ WithDrafts(job, rs) = f[Len(drafts)]
               /\ f[0] = [job |-> job, recovery |-> rs]
               /\ \A i \in 0 .. Len(drafts) : f[i] \in Pair(made)
               /\ \A i \in 1 .. Len(drafts) : f[i] = Put(f[i - 1], drafts[i])
  BY WithDraftsUnfolds
<1> DEFINE Good(i) ==
       /\ Whole(f[i].job) /\ SameBut(f[i].job, job) /\ ToSet(rs) \subseteq ToSet(f[i].recovery)
       /\ \A k \in 1 .. i : drafts[k].job = job.id => Kept(f[i].job, f[i].recovery, drafts[k])
<1>4. Good(0)
  <2>1. f[0].job = job /\ f[0].recovery = rs
    BY <1>3
  <2>2. SameBut(job, job)
    BY DEF SameBut, RawUpTo
  <2> QED BY <2>1, <2>2
<1>5. ASSUME NEW i \in 0 .. n - 1, Good(i) PROVE Good(i + 1)
  <2>1. i + 1 \in 1 .. n /\ i \in 0 .. n /\ (i + 1) - 1 = i
    OBVIOUS
  <2>2. PICK w \in Pair(made) : w = f[i]
    BY <1>1, <1>3, <2>1
  <2>3. PICK d \in ToSet(drafts) : d = drafts[i + 1]
    BY <1>2, <2>1 DEF ToSet
  <2>4. PICK u : u = Put(w, d)
    OBVIOUS
  <2>5. f[i + 1] = u
    BY <1>1, <1>3, <2>1, <2>2, <2>3, <2>4
  <2>6. /\ Whole(w.job) /\ SameBut(w.job, job) /\ ToSet(rs) \subseteq ToSet(w.recovery)
        /\ \A k \in 1 .. i : drafts[k].job = job.id => Kept(w.job, w.recovery, drafts[k])
    BY <1>5, <2>2
  <2>7. w.job.id = job.id
    <3>1. w.job \in RawUpTo(made)
      BY <2>2 DEF Pair
    <3> QED BY <2>6, <3>1 DEF SameBut, RawUpTo
  <2>8. /\ Whole(u.job) /\ SameBut(u.job, w.job) /\ ToSet(w.recovery) \subseteq ToSet(u.recovery)
        /\ d.job = job.id => Kept(u.job, u.recovery, d)
        /\ \A e \in ToSet(drafts) :
              e.job = job.id /\ Kept(w.job, w.recovery, e) => Kept(u.job, u.recovery, e)
    BY <2>4, <2>6, <2>7, PutFacts
  <2>9. SameBut(u.job, job)
    BY <2>6, <2>8 DEF SameBut
  <2>10. ASSUME NEW k \in 1 .. i + 1, drafts[k].job = job.id
         PROVE  Kept(u.job, u.recovery, drafts[k])
    <3>1. CASE k = i + 1
      BY <2>3, <2>8, <2>10, <3>1
    <3>2. CASE k # i + 1
      <4>1. k \in 1 .. i /\ k \in 1 .. n
        BY <3>2
      <4>2. drafts[k] \in ToSet(drafts)
        BY <1>2, <4>1 DEF ToSet
      <4> QED BY <2>6, <2>8, <2>10, <4>1, <4>2
    <3> QED BY <3>1, <3>2
  <2> QED BY <2>5, <2>6, <2>8, <2>9, <2>10
<1> HIDE DEF Good
<1>6. Good(n)
  <2>1. PICK T : T = {i \in 0 .. n : Good(i)}
    OBVIOUS
  <2>2. 0 \in T /\ \A i \in 0 .. n - 1 : i \in T => i + 1 \in T
    BY <1>4, <1>5, <2>1
  <2>3. \A i \in 0 .. n : i \in T
    BY <2>2, UpTo
  <2> QED BY <2>1, <2>3
<1>7. c = f[n] /\ n \in 0 .. n
  BY <1>1, <1>3
<1>8. ASSUME NEW e \in ToSet(drafts), e.job = job.id PROVE Kept(c.job, c.recovery, e)
  <2>1. PICK k \in 1 .. n : e = drafts[k]
    BY <1>2 DEF ToSet
  <2> QED BY <1>6, <1>7, <1>8, <2>1 DEF Good
<1> QED BY <1>1, <1>3, <1>6, <1>7, <1>8 DEF Good


LEMMA MoreKept ==
    ASSUME NEW job, NEW rs, NEW more, ToSet(rs) \subseteq ToSet(more), NEW e, Kept(job, rs, e)
    PROVE  Kept(job, more, e)
BY DEF Kept

LEMMA SnapshotFacts ==
    ASSUME IInv, Drafted, NEW js \in Seq(RawUpTo(made)), \A i \in DOMAIN js : Whole(js[i]),
           NEW s, s = Snapshot(js)
    PROVE  /\ s \in Work(made) /\ Len(s.jobs) = Len(js)
           /\ \A i \in 1 .. Len(js) :
                 /\ Whole(s.jobs[i]) /\ SameBut(s.jobs[i], js[i])
                 /\ \A e \in ToSet(drafts) :
                       e.job = js[i].id => Kept(s.jobs[i], s.recovery, e)
<1>1. PICK n \in Nat : n = Len(js)
  OBVIOUS
<1>2. PICK f : /\ Snapshot(js) = f[Len(js)] /\ f[0] = Nothing
               /\ \A i \in 0 .. Len(js) : f[i] \in Work(made)
               /\ \A i \in 1 .. Len(js) : f[i] = Add(f[i - 1], js[i])
  BY SnapshotUnfolds
<1> DEFINE Fine(w, k) ==
              /\ Whole(w.jobs[k]) /\ SameBut(w.jobs[k], js[k])
              /\ \A e \in ToSet(drafts) : e.job = js[k].id => Kept(w.jobs[k], w.recovery, e)
           Good(i) == Len(f[i].jobs) = i /\ \A k \in 1 .. i : Fine(f[i], k)
<1>3. Good(0)
  BY <1>2 DEF Nothing
<1>4. ASSUME NEW i \in 0 .. n - 1, Good(i) PROVE Good(i + 1)
  <2>1. i + 1 \in 1 .. n /\ i \in 0 .. n /\ (i + 1) - 1 = i
    OBVIOUS
  <2>2. PICK w \in Work(made) : w = f[i]
    BY <1>1, <1>2, <2>1
  <2>3. PICK ws \in Seq(RawUpTo(made)) : ws = w.jobs
    BY DEF Work
  <2>4. PICK rs \in Seq(RecordUpTo(made)) : rs = w.recovery
    BY DEF Work
  <2>5. PICK job \in RawUpTo(made) : job = js[i + 1]
    BY <1>1, <2>1
  <2>6. Whole(job)
    BY <1>1, <2>1, <2>5
  <2>7. PICK c : c = WithDrafts(job, rs)
    OBVIOUS
  <2>8. /\ c \in Pair(made)
        /\ Whole(c.job) /\ SameBut(c.job, job) /\ ToSet(rs) \subseteq ToSet(c.recovery)
        /\ \A e \in ToSet(drafts) : e.job = job.id => Kept(c.job, c.recovery, e)
    BY <2>6, <2>7, WithDraftsFacts
  <2>9. PICK u : u = [jobs |-> Append(ws, c.job), recovery |-> c.recovery]
    OBVIOUS
  <2>10. f[i + 1] = u
    <3>1. f[i + 1] = Add(w, job)
      BY <1>1, <1>2, <2>1, <2>2, <2>5
    <3> QED BY <2>3, <2>4, <2>7, <2>9, <3>1 DEF Add
  <2>11. Len(ws) = i
    BY <1>4, <2>2, <2>3
  <2>12. u.jobs = Append(ws, c.job) /\ u.recovery = c.recovery
    BY <2>9
  <2>13. Len(u.jobs) = i + 1 /\ u.jobs[i + 1] = c.job /\ \A k \in 1 .. i : u.jobs[k] = ws[k]
    BY <2>11, <2>12
  <2>14. Fine(u, i + 1)
    BY <2>5, <2>8, <2>12, <2>13
  <2>15. ASSUME NEW k \in 1 .. i PROVE Fine(u, k)
    <3>1. /\ Whole(ws[k]) /\ SameBut(ws[k], js[k])
          /\ \A e \in ToSet(drafts) : e.job = js[k].id => Kept(ws[k], rs, e)
      BY <1>4, <2>2, <2>3, <2>4
    <3>2. \A e \in ToSet(drafts) : Kept(ws[k], rs, e) => Kept(ws[k], c.recovery, e)
      BY <2>8, MoreKept
    <3>3. u.jobs[k] = ws[k]
      BY <2>13
    <3> QED BY <2>12, <3>1, <3>2, <3>3
  <2> HIDE DEF Fine
  <2>16. \A k \in 1 .. i + 1 : k \in 1 .. i \/ k = i + 1
    OBVIOUS
  <2> QED BY <2>10, <2>13, <2>14, <2>15, <2>16
<1> HIDE DEF Good
<1>5. Good(n)
  <2>1. PICK T : T = {i \in 0 .. n : Good(i)}
    OBVIOUS
  <2>2. 0 \in T /\ \A i \in 0 .. n - 1 : i \in T => i + 1 \in T
    BY <1>3, <1>4, <2>1
  <2>3. \A i \in 0 .. n : i \in T
    BY <2>2, UpTo
  <2> QED BY <2>1, <2>3
<1>6. s = f[n] /\ n \in 0 .. n
  BY <1>1, <1>2
<1> QED BY <1>1, <1>2, <1>5, <1>6 DEF Good


\* Records that follow clean data are kept, perhaps under other names.
LEMMA ReadBackMore ==
    ASSUME NEW m \in Nat, NEW js \in Seq(RawUpTo(m)), NEW rs \in Seq(RecordUpTo(m)),
           NEW more \in Seq(RecordUpTo(m)), Clean(js, rs),
           NEW back, back = RestoreJobs(js, 3, rs \o more)
    PROVE  /\ back.jobs = js /\ ToSet(rs) \subseteq ToSet(back.recovery)
           /\ \A r \in ToSet(more) : \E q \in ToSet(back.recovery) : q.data = r.data
           /\ Held(back) = Len(js) + Len(rs \o more)
<1>1. PICK p \in Nat : p = Len(rs)
  OBVIOUS
<1>2. PICK all \in Seq(RecordUpTo(m)) : all = rs \o more
  BY Joined
<1>3. PICK n \in Nat : n = Len(all)
  OBVIOUS
<1>4. p <= n /\ \A k \in 1 .. p : k \in 1 .. n /\ all[k] = rs[k]
  BY <1>1, <1>2, <1>3
<1>5. PICK f : /\ RestoreJobs(js, 3, all) = f[n] /\ f[0] = Taken(js, 3)
               /\ \A i \in 1 .. n : f[i] = Again(f[i - 1], all[i])
               /\ Sound(f[n], m, Len(js) + Len(all), Contents(js, all))
  BY <1>3, RestoreUnfolds, ZenonT(20)
<1> DEFINE There(w, k) == \E q \in ToSet(w.recovery) : q.data = all[k].data /\ (k <= p => q = all[k])
           Good(i) ==
              /\ f[i].jobs = js /\ f[i].recovery \in Seq(RecordUpTo(m))
              /\ \A k \in 1 .. i : There(f[i], k)
              /\ i <= p => \A q \in ToSet(f[i].recovery) : \E k \in 1 .. i : q = all[k]
<1>6. Good(0)
  <2>1. f[0] = [jobs |-> js, recovery |-> <<>>]
    BY <1>5, TakenBack DEF Clean
  <2>2. <<>> \in Seq(RecordUpTo(m)) /\ ToSet(<<>>) = {}
    BY EmptySeq DEF ToSet
  <2> QED BY <2>1, <2>2
<1>7. ASSUME NEW i \in 0 .. n - 1, Good(i) PROVE Good(i + 1)
  <2>1. i + 1 \in 1 .. n /\ (i + 1) - 1 = i
    OBVIOUS
  <2>2. PICK e \in RecordUpTo(m) : e = all[i + 1]
    BY <1>3, <2>1
  <2>3. e.id \in NameUpTo(m) /\ e.data \in RawUpTo(m) /\ e = [id |-> e.id, data |-> e.data]
    BY DEF RecordUpTo
  <2>4. PICK had \in Seq(RecordUpTo(m)) : had = f[i].recovery
    BY <1>7
  <2>5. PICK r \in RecordUpTo(m) :
            /\ Quarantine(had, e.id, e.data) = Append(had, r)
            /\ r.data = e.data /\ r.id # NoID /\ r.id \notin Ids(had)
            /\ e.id # NoID /\ e.id \notin Ids(had) => r.id = e.id
    BY <2>3, QuarantineFacts, SMTT(20)
  <2>6. PICK u : u = [jobs |-> js, recovery |-> Append(had, r)]
    OBVIOUS
  <2>7. f[i + 1] = u
    <3>1. f[i + 1] = Again(f[i], e)
      BY <1>5, <2>1, <2>2
    <3> QED BY <1>7, <2>4, <2>5, <2>6, <3>1 DEF Again
  <2>8. /\ u.jobs = js /\ u.recovery \in Seq(RecordUpTo(m))
        /\ ToSet(u.recovery) = ToSet(had) \cup {r}
    BY <2>6, Appended
  <2>9. ASSUME i + 1 <= p PROVE r = e
    <3>1. e.id # NoID
      BY <1>1, <1>4, <2>1, <2>2, <2>9 DEF Clean, Named
    <3>2. ASSUME NEW q \in ToSet(had) PROVE q.id # e.id
      <4>1. PICK k \in 1 .. i : q = all[k]
        BY <1>7, <2>4, <2>9
      <4>2. k \in 1 .. p /\ i + 1 \in 1 .. p /\ k # i + 1
        BY <2>9
      <4>3. q = rs[k] /\ e = rs[i + 1] /\ k \in DOMAIN rs /\ i + 1 \in DOMAIN rs
        BY <1>1, <1>4, <2>2, <4>1, <4>2
      <4>4. Unlike(rs)
        BY DEF Clean
      <4>5. rs[k].id # rs[i + 1].id
        BY <4>2, <4>3, <4>4 DEF Unlike
      <4> QED BY <4>3, <4>5
    <3>3. e.id \notin Ids(had)
      BY <3>2 DEF Ids
    <3>4. r = [id |-> r.id, data |-> r.data]
      BY DEF RecordUpTo
    <3> QED BY <2>3, <2>5, <3>1, <3>3, <3>4
  <2>10. There(u, i + 1)
    BY <2>2, <2>5, <2>8, <2>9
  <2>11. ASSUME NEW k \in 1 .. i PROVE There(u, k)
    <3>1. There(f[i], k)
      BY <1>7
    <3> QED BY <2>4, <2>8, <3>1
  <2>12. ASSUME i + 1 <= p, NEW q \in ToSet(u.recovery) PROVE \E k \in 1 .. i + 1 : q = all[k]
    <3>1. CASE q \in ToSet(had)
      <4>1. PICK k \in 1 .. i : q = all[k]
        BY <1>7, <2>4, <2>12, <3>1
      <4> QED BY <4>1
    <3>2. CASE q = r
      BY <2>1, <2>2, <2>9, <2>12, <3>2
    <3> QED BY <2>8, <3>1, <3>2
  <2>13. \A k \in 1 .. i + 1 : k \in 1 .. i \/ k = i + 1
    OBVIOUS
  <2> HIDE DEF There
  <2> QED BY <2>7, <2>8, <2>10, <2>11, <2>12, <2>13
<1> HIDE DEF Good
<1>8. Good(n)
  <2>1. PICK T : T = {i \in 0 .. n : Good(i)}
    OBVIOUS
  <2>2. 0 \in T /\ \A i \in 0 .. n - 1 : i \in T => i + 1 \in T
    BY <1>6, <1>7, <2>1
  <2>3. \A i \in 0 .. n : i \in T
    BY <2>2, UpTo
  <2> QED BY <2>1, <2>3
<1>9. back = f[n]
  BY <1>2, <1>5
<1>10. back.jobs = js /\ \A k \in 1 .. n : There(back, k)
  BY <1>8, <1>9 DEF Good
<1>11. ASSUME NEW r \in ToSet(rs) PROVE r \in ToSet(back.recovery)
  <2>1. PICK k \in 1 .. p : r = rs[k]
    BY <1>1 DEF ToSet
  <2> QED BY <1>4, <1>10, <2>1
<1>12. ASSUME NEW r \in ToSet(more) PROVE \E q \in ToSet(back.recovery) : q.data = r.data
  <2>1. r \in ToSet(all)
    BY <1>2, Joined
  <2>2. PICK k \in 1 .. n : r = all[k]
    BY <1>3, <2>1 DEF ToSet
  <2> QED BY <1>10, <2>2
<1>13. Held(back) = Len(js) + Len(all)
  BY <1>5, <1>9 DEF Sound
<1> QED BY <1>2, <1>10, <1>11, <1>12, <1>13


LEMMA BackupHolds == IInv /\ Drafted => BackupComplete
<1> SUFFICES ASSUME IInv, Drafted PROVE BackupComplete
  OBVIOUS
<1>1. PICK js \in Seq(RawUpTo(made)) : js = Loaded.jobs
  BY LoadedFacts DEF IInv
<1>2. PICK rs \in Seq(RecordUpTo(made)) : rs = Loaded.recovery
  BY LoadedFacts DEF IInv
<1>3. made \in Nat /\ Clean(js, rs) /\ Len(js) + Len(rs) <= Limit
  <2>1. Len(Loaded.jobs) + Len(Loaded.recovery) <= Limit
    BY LoadedFacts DEF IInv
  <2> QED BY <1>1, <1>2, <2>1, LoadedFacts DEF IInv, TypeOK
<1>4. PICK n \in Nat : n = Len(js)
  OBVIOUS
<1>5. PICK s : s = Snapshot(js)
  OBVIOUS
<1>6. /\ s \in Work(made) /\ Len(s.jobs) = n
      /\ \A i \in 1 .. n : /\ Whole(s.jobs[i]) /\ SameBut(s.jobs[i], js[i])
                           /\ \A e \in ToSet(drafts) :
                                 e.job = js[i].id => Kept(s.jobs[i], s.recovery, e)
  BY <1>3, <1>4, <1>5, SnapshotFacts DEF Clean
<1>7. PICK new \in Seq(RawUpTo(made)) : new = s.jobs
  BY <1>6 DEF Work
<1>8. PICK more \in Seq(RecordUpTo(made)) : more = s.recovery
  BY <1>6 DEF Work
<1>9. /\ Len(new) = n /\ DOMAIN new = 1 .. n /\ DOMAIN js = 1 .. n
      /\ \A i \in 1 .. n : new[i] \in RawUpTo(made) /\ js[i] \in RawUpTo(made)
  BY <1>4, <1>6, <1>7
<1>10. ASSUME NEW i \in 1 .. n
       PROVE  new[i].id = js[i].id /\ [new[i] EXCEPT !.terms = <<>>] = [js[i] EXCEPT !.terms = <<>>]
  <2>1. new[i] = [js[i] EXCEPT !.terms = new[i].terms]
    BY <1>6, <1>7 DEF SameBut
  <2> QED BY <1>9, <2>1 DEF RawUpTo
<1>11. Clean(new, rs)
  <2>1. Unlike(new)
    <3> SUFFICES ASSUME NEW i \in 1 .. n, NEW k \in 1 .. n, i # k PROVE new[i].id # new[k].id
      BY <1>9 DEF Unlike
    <3>1. js[i].id # js[k].id
      BY <1>3, <1>9 DEF Clean, Unlike
    <3> QED BY <1>10, <3>1
  <2> QED BY <1>3, <1>6, <1>7, <1>9, <2>1 DEF Clean
<1>12. PICK back : back = Parsed(Backup(Loaded.jobs, Loaded.recovery))
  OBVIOUS
<1>13. back = RestoreJobs(new, 3, rs \o more)
  <2>1. PICK b : b = Backup(js, rs)
    OBVIOUS
  <2>2. b.jobs = new /\ b.recovery = rs \o more
    BY <1>5, <1>7, <1>8, <2>1 DEF Backup
  <2> QED BY <1>1, <1>2, <1>12, <2>1, <2>2 DEF Parsed
<1>14. /\ back.jobs = new /\ ToSet(rs) \subseteq ToSet(back.recovery)
       /\ \A r \in ToSet(more) : \E q \in ToSet(back.recovery) : q.data = r.data
       /\ Held(back) = Len(new) + Len(rs \o more)
  BY <1>3, <1>11, <1>13, ReadBackMore
<1>15. [i \in DOMAIN back.jobs |-> [back.jobs[i] EXCEPT !.terms = <<>>]]
         = [i \in DOMAIN Loaded.jobs |-> [Loaded.jobs[i] EXCEPT !.terms = <<>>]]
  BY <1>1, <1>9, <1>10, <1>14
<1>16. ASSUME NEW d \in ToSet(drafts)
       PROVE  \/ \E j \in ToSet(back.jobs) :
                    j.id = d.job /\ HasField(j.terms, d) /\ MemoryValue(j.terms, d) = d.value
              \/ \E r \in ToSet(back.recovery) : r.data.content = <<d.term, d.text, d.value>>
  <2>1. PICK i \in 1 .. n : js[i].id = d.job
    <3>1. d.job \in Ids(js)
      BY <1>1 DEF Drafted
    <3> QED BY <1>9, <3>1 DEF Ids, ToSet
  <2>2. Kept(new[i], more, d)
    BY <1>6, <1>7, <1>8, <2>1
  <2>3. CASE HasField(new[i].terms, d) /\ MemoryValue(new[i].terms, d) = d.value
    <3>1. new[i] \in ToSet(back.jobs) /\ new[i].id = d.job
      BY <1>9, <1>10, <1>14, <2>1 DEF ToSet
    <3> QED BY <2>3, <3>1
  <2>4. ASSUME NEW r \in ToSet(more), r.data.content = <<d.term, d.text, d.value>>
        PROVE  \E q \in ToSet(back.recovery) : q.data.content = <<d.term, d.text, d.value>>
    BY <1>14, <2>4
  <2> QED BY <2>2, <2>3, <2>4 DEF Kept
<1>17. ASSUME Snapshot(Loaded.jobs).recovery = <<>> PROVE Held(back) <= Limit
  <2>1. more = <<>>
    BY <1>1, <1>5, <1>8, <1>17
  <2>2. Len(rs \o more) = Len(rs)
    BY <2>1
  <2> QED BY <1>3, <1>4, <1>9, <1>14, <2>2
<1>18. ToSet(Loaded.recovery) \subseteq ToSet(back.recovery)
  BY <1>2, <1>14
<1> QED BY <1>12, <1>15, <1>16, <1>17, <1>18 DEF BackupComplete


\* Tasks that are stored behind others, or with other terms, are still there.
LEMMA Behind ==
    ASSUME NEW S, NEW a \in Seq(S), NEW T, NEW b \in Seq(T)
    PROVE  ToSet(b) \subseteq ToSet(a \o b)
<1>1. PICK p \in Nat : p = Len(a)
  OBVIOUS
<1>2. PICK q \in Nat : q = Len(b)
  OBVIOUS
<1>3. PICK c : c = a \o b
  OBVIOUS
<1>4. DOMAIN c = 1 .. p + q /\ DOMAIN b = 1 .. q /\ \A i \in 1 .. q : c[p + i] = b[i]
  BY <1>1, <1>2, <1>3
<1>5. ASSUME NEW i \in 1 .. q PROVE b[i] \in ToSet(c)
  <2>1. p + i \in DOMAIN c /\ c[p + i] = b[i]
    BY <1>4
  <2> QED BY <2>1 DEF ToSet
<1>6. ASSUME NEW x \in ToSet(b) PROVE x \in ToSet(c)
  <2>1. PICK i \in 1 .. q : x = b[i]
    BY <1>4 DEF ToSet
  <2> QED BY <1>5, <2>1
<1> QED BY <1>3, <1>6

LEMMA WriteTermsIds ==
    ASSUME IInv, NEW id, NEW terms, WriteTerms(id, terms)
    PROVE  Ids(Loaded.jobs) \subseteq Ids(jobs')
<1>1. PICK js \in Seq(RawUpTo(made)) : js = Loaded.jobs
  BY LoadedFacts DEF IInv
<1>2. PICK new : new = jobs'
  OBVIOUS
<1>3. new = [i \in DOMAIN js |-> IF js[i].id = id THEN [js[i] EXCEPT !.terms = terms] ELSE js[i]]
  BY <1>1, <1>2 DEF WriteTerms, Write
<1>4. ASSUME NEW i \in DOMAIN js PROVE js[i].id \in Ids(new)
  <2>1. js[i] \in RawUpTo(made)
    OBVIOUS
  <2>2. new[i].id = js[i].id
    BY <1>3, <2>1 DEF RawUpTo
  <2>3. i \in DOMAIN new
    BY <1>3
  <2> QED BY <2>2, <2>3 DEF Ids, ToSet
<1> QED BY <1>1, <1>2, <1>4 DEF Ids, ToSet

\* A step after which the drafts are some of those before, and their tasks there.
LEMMA StillDrafted ==
    ASSUME Drafted, ReadOnceMore, ToSet(drafts') \subseteq ToSet(drafts),
           \A d \in ToSet(drafts') : UNCHANGED stored \/ d.job \in Ids(jobs')
    PROVE  Drafted'
<1>1. ASSUME NEW d \in ToSet(drafts') PROVE d.job \in Ids(Loaded'.jobs)
  <2>1. d.job \in Ids(Loaded.jobs)
    BY <1>1 DEF Drafted
  <2>2. CASE UNCHANGED stored
    <3>1. Loaded' = Loaded
      BY <2>2 DEF stored, Loaded
    <3> QED BY <2>1, <3>1
  <2>3. CASE ~UNCHANGED stored
    <3>1. Loaded'.jobs = jobs'
      BY <2>3 DEF ReadOnceMore
    <3> QED BY <1>1, <2>3, <3>1
  <2> QED BY <2>2, <2>3
<1>2. \A d, e \in ToSet(drafts') :
         d.job = e.job /\ d.term = e.term /\ d.text = e.text => d = e
  BY DEF Drafted
<1> QED BY <1>1, <1>2 DEF Drafted

LEMMA TypeDraftDrafted ==
    ASSUME IInv, Drafted, NEW j \in ToSet(Loaded.jobs), NEW f, NEW value, TypeDraft(j, f, value)
    PROVE  Drafted'
<1>1. PICK d : d = [job |-> j.id, term |-> f.term, text |-> f.text, value |-> value,
                    previous |-> MemoryValue(j.terms, f)]
  OBVIOUS
<1>2. UNCHANGED stored /\ drafts' = Append(drafts, d)
  BY <1>1 DEF TypeDraft
<1>3. Loaded' = Loaded
  BY <1>2 DEF stored, Loaded
<1>4. ASSUME NEW e \in ToSet(drafts) PROVE ~(e.job = d.job /\ e.term = d.term /\ e.text = d.text)
  <2>1. <<e.job, e.term, e.text>> # <<j.id, f.term, f.text>>
    BY DEF TypeDraft
  <2> QED BY <1>1, <2>1
<1>5. PICK ds \in Seq(DraftUpTo(made)) : ds = drafts
  BY DEF IInv, TypeOK
<1>6. PICK T : T = ToSet(ds) \cup {d}
  OBVIOUS
<1>7. ToSet(drafts') = T
  <2>1. ds \in Seq(T)
    <3>1. \A i \in 1 .. Len(ds) : ds[i] \in ToSet(ds)
      BY DEF ToSet
    <3>2. ds \in [1 .. Len(ds) -> T]
      BY <1>6, <3>1
    <3> QED BY <3>2, Listed
  <2>2. ToSet(Append(ds, d)) = ToSet(ds) \cup {d}
    BY <1>6, <2>1, Appended
  <2> QED BY <1>2, <1>5, <1>6, <2>2
<1>8. j.id \in Ids(Loaded.jobs) /\ d.job = j.id
  BY <1>1 DEF Ids
<1>9. \A e \in T : e.job \in Ids(Loaded'.jobs)
  BY <1>3, <1>5, <1>6, <1>8 DEF Drafted
<1>10. \A a, b \in T : a.job = b.job /\ a.term = b.term /\ a.text = b.text => a = b
  BY <1>4, <1>5, <1>6 DEF Drafted
<1> QED BY <1>7, <1>9, <1>10 DEF Drafted

LEMMA KeepMineDrafted ==
    ASSUME IInv, Drafted, NEW j \in ToSet(Loaded.jobs), NEW d \in ToSet(drafts), KeepMine(j, d)
    PROVE  Drafted'
<1>1. PICK n \in Nat : n = Len(drafts)
  BY DEF IInv, TypeOK
<1>2. DOMAIN drafts = 1 .. n
  BY <1>1 DEF IInv, TypeOK
<1>3. PICK e : e = [d EXCEPT !.previous = MemoryValue(j.terms, d)]
  OBVIOUS
<1>4. PICK new : new = drafts'
  OBVIOUS
<1>5. UNCHANGED stored /\ new = [i \in 1 .. n |-> IF drafts[i] = d THEN e ELSE drafts[i]]
  BY <1>2, <1>3, <1>4 DEF KeepMine
<1>6. Loaded' = Loaded
  BY <1>5 DEF stored, Loaded
<1>7. e.job = d.job /\ e.term = d.term /\ e.text = d.text
  <2>1. d \in DraftUpTo(made)
    BY DraftFacts
  <2> QED BY <1>3, <2>1 DEF DraftUpTo
<1>8. ASSUME NEW i \in 1 .. n
      PROVE  /\ drafts[i] \in ToSet(drafts)
             /\ new[i].job = drafts[i].job /\ new[i].term = drafts[i].term
             /\ new[i].text = drafts[i].text
             /\ new[i] = IF drafts[i] = d THEN e ELSE drafts[i]
  BY <1>2, <1>5, <1>7 DEF ToSet
<1>9. ASSUME NEW x \in ToSet(new) PROVE \E i \in 1 .. n : x = new[i]
  BY <1>5 DEF ToSet
<1>10. ASSUME NEW x \in ToSet(new) PROVE x.job \in Ids(Loaded'.jobs)
  BY <1>6, <1>8, <1>9 DEF Drafted
<1>11. ASSUME NEW x \in ToSet(new), NEW y \in ToSet(new),
              x.job = y.job /\ x.term = y.term /\ x.text = y.text
       PROVE  x = y
  <2>1. PICK i \in 1 .. n : x = new[i]
    BY <1>9
  <2>2. PICK k \in 1 .. n : y = new[k]
    BY <1>9
  <2>3. drafts[i] = drafts[k]
    BY <1>8, <1>11, <2>1, <2>2 DEF Drafted
  <2> QED BY <1>8, <2>1, <2>2, <2>3
<1> QED BY <1>4, <1>10, <1>11 DEF Drafted


LEMMA EditDrafted ==
    ASSUME IInv, Drafted, ReadOnceMore, NEW j \in ToSet(Loaded.jobs), EditTerms(j)
    PROVE  Drafted'
<1>1. ASSUME NEW id, NEW terms, WriteTerms(id, terms), ToSet(drafts') \subseteq ToSet(drafts)
      PROVE  Drafted'
  <2>1. \A d \in ToSet(drafts') : d.job \in Ids(jobs')
    BY <1>1, WriteTermsIds DEF Drafted
  <2> QED BY <1>1, <2>1, StillDrafted
<1>2. ASSUME NEW d PROVE ToSet(Without(d)) \subseteq ToSet(drafts)
  <2>1. PICK ds \in Seq(DraftUpTo(made)) : ds = drafts
    BY DEF IInv, TypeOK
  <2> QED BY <2>1, OnlyKeeps DEF Without
<1>3. ASSUME NEW terms, LearnTerms(j, terms) PROVE Drafted'
  BY <1>1, <1>3 DEF LearnTerms
<1>4. ASSUME NEW source, NEW target, AddTerm(j, source, target) PROVE Drafted'
  BY <1>1, <1>4 DEF AddTerm
<1>5. ASSUME NEW id, RemoveTerm(j, id) PROVE Drafted'
  BY <1>1, <1>5 DEF RemoveTerm
<1>6. ASSUME NEW f, NEW value, TypeDraft(j, f, value) PROVE Drafted'
  BY <1>6, TypeDraftDrafted
<1>7. ASSUME NEW d \in ToSet(drafts), SaveDraft(j, d) PROVE Drafted'
  BY <1>1, <1>2, <1>7 DEF SaveDraft
<1>8. ASSUME NEW d \in ToSet(drafts), KeepMine(j, d) PROVE Drafted'
  BY <1>8, KeepMineDrafted
<1> QED BY <1>3, <1>4, <1>5, <1>6, <1>7, <1>8 DEF EditTerms

LEMMA ManageDrafted ==
    ASSUME IInv, Drafted, ReadOnceMore, Manage PROVE Drafted'
<1>1. PICK js \in Seq(RawUpTo(made)) : js = Loaded.jobs
  BY LoadedFacts DEF IInv
<1>2. ASSUME ToSet(drafts') \subseteq ToSet(drafts), Ids(js) \subseteq Ids(jobs') PROVE Drafted'
  BY <1>1, <1>2, StillDrafted DEF Drafted
<1>3. ASSUME ToSet(drafts') \subseteq ToSet(drafts), UNCHANGED stored PROVE Drafted'
  BY <1>3, StillDrafted
<1>4. ASSUME NEW S, NEW a \in Seq(S), jobs' = a \o js, drafts' = drafts PROVE Drafted'
  <2>1. ToSet(js) \subseteq ToSet(jobs')
    BY <1>4, Behind
  <2> QED BY <1>2, <1>4, <2>1 DEF Ids
<1>5. CASE \E seed \in Seeds : CreateJob(seed)
  <2>1. PICK raw : jobs' = <<raw>> \o js /\ drafts' = drafts
    BY <1>1, <1>5 DEF CreateJob, Write
  <2>2. <<raw>> \in Seq({raw})
    OBVIOUS
  <2> QED BY <1>4, <2>1, <2>2
<1>6. CASE \E j \in ToSet(Loaded.jobs) : DeleteJob(j.id)
  <2>1. PICK id : DeleteJob(id)
    BY <1>6
  <2>2. PICK ds \in Seq(DraftUpTo(made)) : ds = drafts
    BY DEF IInv, TypeOK
  <2>3. ToSet(drafts') = ToSet(ds) \cap {d \in ToSet(ds) : d.job # id}
    BY <2>1, <2>2, OnlyKeeps DEF DeleteJob
  <2>4. ToSet(jobs') = ToSet(js) \cap {j \in ToSet(js) : j.id # id}
    BY <1>1, <2>1, OnlyKeeps DEF DeleteJob, Write
  <2>5. ASSUME NEW d \in ToSet(drafts') PROVE d.job \in Ids(jobs')
    <3>1. d \in ToSet(drafts) /\ d.job # id
      BY <2>2, <2>3
    <3>2. PICK j \in ToSet(js) : d.job = j.id
      BY <1>1, <3>1 DEF Drafted, Ids
    <3>3. j \in ToSet(jobs')
      BY <2>4, <3>1, <3>2
    <3> QED BY <3>2, <3>3 DEF Ids
  <2> QED BY <2>2, <2>3, <2>5, StillDrafted
<1>7. CASE \E shown \in told : DeleteRecovery(shown)
  <2>1. jobs' = js /\ drafts' = drafts
    BY <1>1, <1>7 DEF DeleteRecovery, Write
  <2> QED BY <1>2, <2>1
<1>8. CASE \E r \in ToSet(Loaded.recovery), repaired \in BOOLEAN : ExportRecovery(r, repaired)
  BY <1>3, <1>8 DEF ExportRecovery
<1>9. CASE ExportBackup
  BY <1>3, <1>9 DEF ExportBackup
<1>10. CASE ImportBackup
  <2>1. made \in Nat /\ file.jobs \in Seq(RawUpTo(made)) /\ file.recovery \in Seq(RecordUpTo(made))
    BY DEF IInv, TypeOK, Work
  <2>2. PICK new : new = Parsed(file)
    OBVIOUS
  <2>3. new \in Work(made) /\ Clean(new.jobs, new.recovery)
    <3>1. Sound(RestoreJobs(file.jobs, 3, file.recovery), made,
                Len(file.jobs) + Len(file.recovery), Contents(file.jobs, file.recovery))
      BY <2>1, RestoreKeeps
    <3> QED BY <2>2, <3>1 DEF Sound, Parsed
  <2>4. PICK njs \in Seq(RawUpTo(made)) : njs = new.jobs
    BY <2>3 DEF Work
  <2>5. Copies(Copied(njs), Len(njs), {j.content : j \in ToSet(njs)})
    BY <2>3, <2>4, CopiedFacts DEF Clean
  <2>6. Copied(njs) \in Seq(RawUpTo(made + Len(njs)))
    BY <2>5 DEF Copies
  <2>7. jobs' = Copied(njs) \o js /\ drafts' = drafts
    BY <1>1, <1>10, <2>2, <2>4 DEF ImportBackup, Write
  <2> QED BY <1>4, <2>6, <2>7
<1>11. CASE \E d \in ToSet(drafts) : DropDraft(d)
  <2>1. PICK d : drafts' = Without(d) /\ UNCHANGED stored
    BY <1>11 DEF DropDraft
  <2>2. PICK ds \in Seq(DraftUpTo(made)) : ds = drafts
    BY DEF IInv, TypeOK
  <2>3. ToSet(Without(d)) \subseteq ToSet(drafts)
    BY <2>2, OnlyKeeps DEF Without
  <2> QED BY <1>3, <2>1, <2>3
<1> QED BY <1>5, <1>6, <1>7, <1>8, <1>9, <1>10, <1>11 DEF Manage

\* A backup of the workspace, made at any time, holds all its tasks and records,
\* and what is typed and not saved.
THEOREM BackupsHoldEverything == Spec => []BackupComplete
<1>1. Init => Drafted
  <2> SUFFICES ASSUME Init PROVE Drafted
    OBVIOUS
  <2>1. ToSet(drafts) = {}
    BY DEF Init, ToSet
  <2> QED BY <2>1 DEF Drafted
<1>2. IInv /\ Drafted /\ [Next]_vars => Drafted'
  <2> SUFFICES ASSUME IInv, Drafted, [Next]_vars PROVE Drafted'
    OBVIOUS
  <2>1. ReadOnceMore
    BY StepKeeps DEF ReadOnceMore, vars
  <2>2. CASE UNCHANGED vars
    <3>1. drafts' = drafts /\ UNCHANGED stored
      BY <2>2 DEF vars
    <3> QED BY <2>1, <3>1, StillDrafted
  <2>3. CASE Next
    BY <2>1, <2>3, EditDrafted, ManageDrafted DEF Next
  <2> QED BY <2>2, <2>3
<1> QED BY <1>1, <1>2, Invariance, BackupHolds, PTL DEF Spec


=============================================================================
