---------------------------- MODULE ListTheorems ----------------------------
(***************************************************************************)
(* Induction for models that walk along lists, and the places of a sort.   *)
(*                                                                         *)
(* The induction theorems of the library take an operator.  Here what is   *)
(* shown of every number is a set of numbers, and a function defined by    *)
(* recursion is what its definition says because one such function exists. *)
(***************************************************************************)
EXTENDS Lists, FiniteSetTheorems, SequenceTheorems, WellFoundedInduction, TLAPS

-----------------------------------------------------------------------------
(* Numbers.                                                                *)

\* A set of numbers has a least one.
LEMMA LeastNumber ==
    ASSUME NEW T \in SUBSET Nat, T # {}
    PROVE  \E m \in T : \A k \in T : m <= k
<1>1. PICK m \in T : \A y \in T : <<y, m>> \notin OpToRel(<, Nat)
  BY WFMin, NatLessThanWellFounded
<1>2. \A y \in T : ~(y < m)
  BY <1>1 DEF OpToRel
<1> QED BY <1>2

\* Induction up to n.
LEMMA UpTo ==
    ASSUME NEW n \in Nat, NEW T, 0 \in T, \A k \in 0 .. n - 1 : k \in T => k + 1 \in T
    PROVE  \A k \in 0 .. n : k \in T
<1> DEFINE M == {k \in 0 .. n : k \notin T}
<1> SUFFICES ASSUME M # {} PROVE FALSE
  OBVIOUS
<1>1. PICK m \in M : \A k \in M : m <= k
  BY LeastNumber, M \in SUBSET Nat
<1>2. m # 0 /\ m \in 0 .. n /\ m \notin T
  BY <1>1
<1>3. m - 1 \in 0 .. n - 1 /\ m - 1 \notin M
  BY <1>1, <1>2
<1>4. m - 1 \in T /\ (m - 1) + 1 = m
  BY <1>3
<1> QED BY <1>2, <1>3, <1>4

\* Numbers that are true first and false last change somewhere in between.
LEMMA Turns ==
    ASSUME NEW a \in Nat, NEW b \in Nat, a <= b, NEW T, a \in T, b + 1 \notin T
    PROVE  \E e \in a .. b : e \in T /\ e + 1 \notin T
<1> DEFINE M == {k \in a .. b : k + 1 \notin T}
<1>1. b \in M /\ M \in SUBSET Nat
  OBVIOUS
<1>2. PICK m \in M : \A k \in M : m <= k
  BY <1>1, LeastNumber
<1>3. CASE m = a
  BY <1>3
<1>4. CASE m # a
  <2>1. m - 1 \in a .. b /\ m - 1 \notin M /\ (m - 1) + 1 = m
    BY <1>2, <1>4
  <2> QED BY <2>1, <1>2
<1> QED BY <1>3, <1>4

\* One of finitely many values is the greatest, and the first of them.
LEMMA First ==
    ASSUME NEW n \in Nat, NEW P \in SUBSET (0 .. n), P # {}, NEW f \in [P -> Int]
    PROVE  \E i \in P : \A k \in P \ {i} : IF k < i THEN f[k] < f[i] ELSE f[k] <= f[i]
<1> DEFINE Good(k, i) == \A j \in P \ {i} : j <= k => IF j < i THEN f[j] < f[i] ELSE f[j] <= f[i]
           T == {k \in 0 .. n : (\E j \in P : j <= k) => \E i \in P : i <= k /\ Good(k, i)}
<1>1. 0 \in T
  <2>1. ASSUME NEW j \in P, j <= 0 PROVE \E i \in P : i <= 0 /\ Good(0, i)
    <3>1. j = 0 /\ \A i \in P : i <= 0 => i = j
      BY <2>1
    <3> QED BY <3>1
  <2> QED BY <2>1
<1>2. ASSUME NEW k \in 0 .. n - 1, k \in T PROVE k + 1 \in T
  <2> SUFFICES ASSUME NEW j \in P, j <= k + 1 PROVE \E i \in P : i <= k + 1 /\ Good(k + 1, i)
    OBVIOUS
  <2>0. k + 1 \in 0 .. n /\ \A i \in P : i <= k + 1 <=> i <= k \/ i = k + 1
    OBVIOUS
  <2>1. CASE k + 1 \notin P
    <3>1. PICK i \in P : i <= k /\ Good(k, i)
      BY <1>2, <2>0, <2>1
    <3> QED BY <3>1, <2>0, <2>1
  <2>2. CASE k + 1 \in P /\ ~(\E i \in P : i <= k)
    <3>1. Good(k + 1, k + 1)
      BY <2>0, <2>2
    <3> QED BY <3>1, <2>2
  <2>3. CASE k + 1 \in P /\ \E i \in P : i <= k
    <3>1. PICK i \in P : i <= k /\ Good(k, i)
      BY <1>2, <2>3
    <3>2. f[i] \in Int /\ f[k + 1] \in Int /\ \A l \in P : f[l] \in Int
      BY <2>3
    <3>3. CASE f[k + 1] <= f[i]
      <4>1. Good(k + 1, i)
        BY <3>1, <3>3, <2>0
      <4> QED BY <4>1, <3>1, <2>0
    <3>4. CASE f[i] < f[k + 1]
      <4>1. ASSUME NEW l \in P \ {k + 1}, l <= k + 1
            PROVE  l < k + 1 /\ f[l] < f[k + 1]
        <5>1. l <= k /\ l < k + 1
          BY <4>1, <2>0
        <5>2. f[l] <= f[i]
          BY <5>1, <3>1, <3>2
        <5> QED BY <5>1, <5>2, <3>2, <3>4
      <4>2. Good(k + 1, k + 1)
        BY <4>1
      <4> QED BY <4>2, <2>3
    <3> QED BY <3>2, <3>3, <3>4
  <2> QED BY <2>1, <2>2, <2>3
<1>3. n \in T
  <2>1. PICK S : S = T
    OBVIOUS
  <2>2. 0 \in S /\ \A k \in 0 .. n - 1 : k \in S => k + 1 \in S
    BY <2>1, <1>1, <1>2
  <2>3. n \in S
    BY <2>2, UpTo
  <2> QED BY <2>1, <2>3
<1>4. \A j \in P : j <= n
  OBVIOUS
<1>5. \E i \in P : i <= n /\ Good(n, i)
  <2>1. \E j \in P : j <= n
    BY <1>4
  <2> QED BY <1>3, <2>1
<1> QED BY <1>4, <1>5

-----------------------------------------------------------------------------
(* Functions of positions.                                                 *)

\* A function on the first n numbers is a list.
LEMMA Listed ==
    ASSUME NEW S, NEW n \in Nat, NEW f \in [1 .. n -> S]
    PROVE  f \in Seq(S) /\ Len(f) = n
<1>1. PICK g : g = [i \in 1 .. n |-> f[i]]
  OBVIOUS
<1>2. \A i \in 1 .. n : f[i] \in S
  OBVIOUS
<1>3. g \in Seq(S) /\ Len(g) = n
  BY <1>1, <1>2
<1> QED BY <1>1, <1>3

\* What holds of the first value, and of every value if of the one before it.
LEMMA Along ==
    ASSUME NEW n \in Nat, NEW S, NEW f, f[0] \in S[0],
           \A i \in 1 .. n : f[i - 1] \in S[i - 1] => f[i] \in S[i]
    PROVE  \A i \in 0 .. n : f[i] \in S[i]
<1>1. PICK T : T = {i \in 0 .. n : f[i] \in S[i]}
  OBVIOUS
<1>2. 0 \in T
  BY <1>1
<1>3. ASSUME NEW k \in 0 .. n - 1, k \in T PROVE k + 1 \in T
  <2>1. k + 1 \in 1 .. n /\ (k + 1) - 1 = k /\ k + 1 \in 0 .. n
    OBVIOUS
  <2>2. f[(k + 1) - 1] \in S[(k + 1) - 1]
    BY <2>1, <1>1, <1>3
  <2>3. f[k + 1] \in S[k + 1]
    BY <2>1, <2>2
  <2> QED BY <1>1, <2>1, <2>3
<1>4. \A k \in 0 .. n : k \in T
  BY <1>2, <1>3, UpTo
<1> QED BY <1>1, <1>4

\* A function that begins with b and goes from value to value by steps.
Goes(g, n, b, step) ==
    /\ g = [i \in 0 .. n |-> g[i]]
    /\ g[0] = b
    /\ \A i \in 1 .. n : g[i] = step[i][g[i - 1]]

LEMMA Recursion ==
    ASSUME NEW n \in Nat, NEW S, NEW b \in S[0], NEW step,
           \A i \in 1 .. n : \A w \in S[i - 1] : step[i][w] \in S[i]
    PROVE  \E g : Goes(g, n, b, step) /\ \A i \in 0 .. n : g[i] \in S[i]
<1> DEFINE Up(k, g) == /\ g = [i \in 0 .. k |-> g[i]]
                       /\ g[0] = b
                       /\ \A i \in 0 .. k : g[i] \in S[i]
                       /\ \A i \in 1 .. k : g[i] = step[i][g[i - 1]]
           T == {k \in 0 .. n : \E g : Up(k, g)}
<1>1. 0 \in T
  <2>1. PICK g : g = [i \in 0 .. 0 |-> b]
    OBVIOUS
  <2>2. g[0] = b /\ \A i \in 0 .. 0 : i = 0
    BY <2>1
  <2>3. g = [i \in 0 .. 0 |-> g[i]]
    BY <2>1
  <2>4. \A i \in 0 .. 0 : g[i] \in S[i]
    BY <2>2
  <2>5. \A i \in 1 .. 0 : FALSE
    OBVIOUS
  <2>6. Up(0, g)
    BY <2>2, <2>3, <2>4, <2>5
  <2> QED BY <2>6
<1>2. ASSUME NEW k \in 0 .. n - 1, k \in T PROVE k + 1 \in T
  <2>1. PICK g : Up(k, g)
    BY <1>2
  <2>2. PICK m \in 1 .. n : m = k + 1
    OBVIOUS
  <2>3. m - 1 = k /\ k \in 0 .. k /\ m \in 0 .. n
    BY <2>2
  <2>4. step[m][g[k]] \in S[m]
    BY <2>1, <2>3
  <2>5. PICK h : h = [i \in 0 .. m |-> IF i = m THEN step[m][g[k]] ELSE g[i]]
    OBVIOUS
  <2>6. \A i \in 0 .. m : (i \in 0 .. k /\ i # m) \/ i = m
    BY <2>2
  <2>7. h[m] = step[m][g[k]] /\ \A i \in 0 .. k : h[i] = g[i]
    BY <2>2, <2>5
  <2>8. h = [i \in 0 .. m |-> h[i]]
    BY <2>5
  <2>9. h[0] = b
    BY <2>1, <2>7
  <2>10. \A i \in 0 .. m : h[i] \in S[i]
    BY <2>1, <2>4, <2>6, <2>7
  <2>11. ASSUME NEW i \in 1 .. m PROVE h[i] = step[i][h[i - 1]]
    <3>1. CASE i = m
      <4>1. h[i - 1] = g[k]
        BY <3>1, <2>3, <2>7
      <4> QED BY <3>1, <4>1, <2>7
    <3>2. CASE i # m
      <4>1. i \in 1 .. k /\ i \in 0 .. k /\ i - 1 \in 0 .. k
        BY <3>2, <2>2
      <4> QED BY <4>1, <2>1, <2>7
    <3> QED BY <3>1, <3>2
  <2>12. Up(m, h)
    BY <2>8, <2>9, <2>10, <2>11
  <2> QED BY <2>12, <2>2, <2>3
<1>3. n \in T
  <2>1. PICK S1 : S1 = T
    OBVIOUS
  <2>2. 0 \in S1 /\ \A k \in 0 .. n - 1 : k \in S1 => k + 1 \in S1
    BY <2>1, <1>1, <1>2
  <2>3. n \in 0 .. n
    OBVIOUS
  <2>4. n \in S1
    BY <2>2, <2>3, UpTo
  <2> QED BY <2>1, <2>4
<1>4. PICK g : Up(n, g)
  BY <1>3
<1>5. Goes(g, n, b, step)
  BY <1>4 DEF Goes
<1> QED BY <1>4, <1>5

\* What holds of the empty list, and of a longer one if of its beginning.
LEMMA Growing ==
    ASSUME NEW S, NEW s \in Seq(S), NEW T, <<>> \in T,
           \A a \in Seq(S), e \in S : a \in T => Append(a, e) \in T
    PROVE  s \in T
<1>1. PICK n \in Nat : n = Len(s)
  OBVIOUS
<1>2. PICK U : U = {k \in 0 .. n : SubSeq(s, 1, k) \in T}
  OBVIOUS
<1>3. 0 \in U
  <2>1. PICK b : b = <<>> /\ b \in T
    OBVIOUS
  <2>2. SubSeq(s, 1, 0) = b /\ 0 \in 0 .. n
    BY <2>1, SubSeqEmpty
  <2> QED BY <1>2, <2>1, <2>2
<1>4. ASSUME NEW k \in 0 .. n - 1, k \in U PROVE k + 1 \in U
  <2>1. PICK j : j = k + 1
    OBVIOUS
  <2>2. j \in 1 .. n /\ j - 1 = k /\ j \in Nat /\ s[j] \in S
    <3>1. j \in 1 .. n /\ j - 1 = k /\ j \in Nat
      BY <2>1
    <3> QED BY <3>1, <1>1
  <2>3. PICK a \in Seq(S) : a = SubSeq(s, 1, k)
    <3>1. \A i \in 1 .. k : s[i] \in S
      BY <1>1
    <3>2. k \in Int
      OBVIOUS
    <3>3. SubSeq(s, 1, k) \in Seq(S)
      BY <3>1, <3>2, SubSeqProperties
    <3> QED BY <3>3
  <2>4. a \in T
    BY <1>2, <1>4, <2>3
  <2>5. SubSeq(s, 1, j) = a \o <<s[j]>>
    BY <1>1, <2>2, <2>3, SubSeqRecursiveSecond
  <2>6. Append(a, s[j]) = SubSeq(s, 1, j)
    BY <2>2, <2>5, AppendIsConcat
  <2>7. Append(a, s[j]) \in T
    BY <2>2, <2>4
  <2> QED BY <1>2, <2>1, <2>2, <2>6, <2>7
<1>5. \A k \in 0 .. n : k \in U
  BY <1>3, <1>4, UpTo
<1>6. n \in U /\ SubSeq(s, 1, n) = s
  BY <1>1, <1>5, SubSeqFull
<1> QED BY <1>2, <1>6

\* Two functions that begin alike and go on alike end alike.
Alike(f, g, n) == f[0] = g[0] /\ \A i \in 1 .. n : f[i - 1] = g[i - 1] => f[i] = g[i]

LEMMA SameWalk ==
    ASSUME NEW n \in Nat, NEW f, NEW g, Alike(f, g, n)
    PROVE  \A i \in 0 .. n : f[i] = g[i]
<1>0. f[0] = g[0] /\ \A i \in 1 .. n : f[i - 1] = g[i - 1] => f[i] = g[i]
  BY DEF Alike
<1>1. PICK W : W = [i \in 0 .. n |-> {g[i]}]
  OBVIOUS
<1>2. f[0] \in W[0]
  BY <1>0, <1>1
<1>3. ASSUME NEW i \in 1 .. n, f[i - 1] \in W[i - 1] PROVE f[i] \in W[i]
  <2>1. i \in 0 .. n /\ i - 1 \in 0 .. n
    OBVIOUS
  <2> QED BY <1>0, <1>1, <1>3, <2>1
<1>4. \A i \in 0 .. n : f[i] \in W[i]
  BY <1>2, <1>3, Along
<1> QED BY <1>1, <1>4

-----------------------------------------------------------------------------
(* Sorting.                                                                *)

\* Who counts what comes before him in a strict order has a place of his own, every
\* place is someone's, and the places are in order.
LEMMA RanksNumber ==
    ASSUME NEW n \in Nat, NEW before \in [1 .. n -> SUBSET (1 .. n)],
           \A i \in 1 .. n : i \notin before[i],
           \A i, k \in 1 .. n : i \in before[k] => before[i] \subseteq before[k],
           \A i, k \in 1 .. n : i = k \/ i \in before[k] \/ k \in before[i],
           NEW place, \A i \in 1 .. n : place[i] = Cardinality(before[i]) + 1
    PROVE  /\ \A i \in 1 .. n : place[i] \in 1 .. n
           /\ \A j \in 1 .. n : \E i \in 1 .. n : place[i] = j
           /\ \A i, k \in 1 .. n : place[i] = place[k] => i = k
           /\ \A i, k \in 1 .. n : place[i] < place[k] => i \in before[k]
<1>1. IsFiniteSet(1 .. n) /\ Cardinality(1 .. n) = n
  BY FS_Interval
<1>2. ASSUME NEW i \in 1 .. n PROVE IsFiniteSet(before[i]) /\ place[i] \in 1 .. n
  <2>1. PICK T : T = (1 .. n) \ {i}
    OBVIOUS
  <2>2. IsFiniteSet(T) /\ Cardinality(T) = n - 1
    BY <1>1, <2>1, FS_RemoveElement
  <2>3. before[i] \in SUBSET T
    BY <2>1
  <2>4. IsFiniteSet(before[i]) /\ Cardinality(before[i]) <= n - 1
    BY <2>2, <2>3, FS_Subset
  <2>5. Cardinality(before[i]) \in Nat
    BY <2>4, FS_CardinalityType
  <2> QED BY <2>4, <2>5
<1>3. ASSUME NEW i \in 1 .. n, NEW k \in 1 .. n, i \in before[k] PROVE place[i] < place[k]
  <2>1. before[i] \in SUBSET before[k] /\ before[i] # before[k]
    BY <1>3
  <2>2. /\ Cardinality(before[i]) <= Cardinality(before[k])
        /\ Cardinality(before[k]) # Cardinality(before[i])
    BY <1>2, <2>1, FS_Subset
  <2> QED BY <1>2, <2>2, FS_CardinalityType
<1>4. \A i, k \in 1 .. n : i # k => place[i] # place[k]
  BY <1>2, <1>3
<1>5. \A i, k \in 1 .. n : place[i] < place[k] => i \in before[k]
  BY <1>2, <1>3
<1>6. PICK f : f = [i \in 1 .. n |-> place[i]]
  OBVIOUS
<1>7. f \in Injection(1 .. n, 1 .. n)
  <2>1. f \in [1 .. n -> 1 .. n]
    BY <1>2, <1>6
  <2> QED BY <1>4, <1>6, <2>1 DEF Injection, IsInjective
<1>8. f \in Surjection(1 .. n, 1 .. n)
  BY <1>1, <1>7, FS_Injection
<1>9. \A j \in 1 .. n : \E i \in 1 .. n : place[i] = j
  BY <1>6, <1>8 DEF Surjection
<1> QED BY <1>2, <1>4, <1>5, <1>9

-----------------------------------------------------------------------------
(* Lists filtered.                                                         *)

\* f[i] is what is left of the first i elements.
Filters(f, s, keep) ==
    /\ Only(s, keep) = f[Len(s)] /\ f[0] = <<>>
    /\ \A i \in 1 .. Len(s) :
          f[i] = IF s[i] \in keep THEN Append(f[i - 1], s[i]) ELSE f[i - 1]

\* The function that Only defines is what its definition says.
LEMMA OnlyUnfolds ==
    ASSUME NEW S, NEW s \in Seq(S), NEW keep
    PROVE  \E f : Filters(f, s, keep)
<1>0. PICK n \in Nat : n = Len(s)
  OBVIOUS
<1> DEFINE F(f) == [i \in 0 .. n |->
                      IF i = 0 THEN <<>>
                      ELSE IF s[i] \in keep THEN Append(f[i - 1], s[i]) ELSE f[i - 1]]
           only == CHOOSE f : f = F(f)
<1>1. PICK W : W = [i \in 0 .. n |-> Seq(S)]
  OBVIOUS
<1>2. PICK step : step = [i \in 1 .. n |-> [w \in Seq(S) |->
                             IF s[i] \in keep THEN Append(w, s[i]) ELSE w]]
  OBVIOUS
<1>3. PICK b \in Seq(S) : b = <<>>
  BY EmptySeq
<1>4. \A i \in 1 .. n : i \in 0 .. n /\ i - 1 \in 0 .. n /\ i # 0
  OBVIOUS
<1>5. \A i \in 1 .. n : \A w \in Seq(S) : step[i][w] \in Seq(S)
  BY <1>0, <1>2
<1>6. b \in W[0] /\ \A i \in 1 .. n : \A w \in W[i - 1] : step[i][w] \in W[i]
  BY <1>1, <1>4, <1>5
<1>7. PICK g : Goes(g, n, b, step) /\ \A i \in 0 .. n : g[i] \in W[i]
  BY <1>6, Recursion
<1>8. g = F(g)
  <2>1. /\ g = [i \in 0 .. n |-> g[i]] /\ g[0] = b /\ \A i \in 0 .. n : g[i] \in Seq(S)
        /\ \A i \in 1 .. n : g[i] = step[i][g[i - 1]]
    BY <1>1, <1>7 DEF Goes
  <2>2. \A i \in 1 .. n : g[i] = IF s[i] \in keep THEN Append(g[i - 1], s[i]) ELSE g[i - 1]
    BY <1>2, <1>4, <2>1
  <2>3. \A i \in 0 .. n :
           g[i] = IF i = 0 THEN <<>>
                  ELSE IF s[i] \in keep THEN Append(g[i - 1], s[i]) ELSE g[i - 1]
    <3> SUFFICES ASSUME NEW i \in 0 .. n
                 PROVE  g[i] = IF i = 0 THEN <<>>
                               ELSE IF s[i] \in keep THEN Append(g[i - 1], s[i]) ELSE g[i - 1]
      OBVIOUS
    <3>1. CASE i = 0
      BY <3>1, <2>1, <1>3
    <3>2. CASE i # 0
      BY <3>2, <2>2
    <3> QED BY <3>1, <3>2
  <2> QED BY <2>1, <2>3
<1>9. only = F(only)
  BY <1>8
<1>10. Only(s, keep) = only[n]
  BY <1>0 DEF Only
<1>11. PICK h : h = only
  OBVIOUS
<1>12. h[0] = <<>> /\ \A i \in 1 .. n :
          h[i] = IF s[i] \in keep THEN Append(h[i - 1], s[i]) ELSE h[i - 1]
  <2>1. h = F(h)
    BY <1>9, <1>11
  <2>2. \A i \in 0 .. n : h[i] = IF i = 0 THEN <<>>
                                 ELSE IF s[i] \in keep THEN Append(h[i - 1], s[i]) ELSE h[i - 1]
    BY <2>1
  <2> QED BY <2>2
<1> HIDE DEF only
<1>13. Filters(h, s, keep)
  BY <1>0, <1>10, <1>11, <1>12 DEF Filters
<1> QED BY <1>13

\* A filtered list, extended.
LEMMA OnlyAppended ==
    ASSUME NEW S, NEW s \in Seq(S), NEW e \in S, NEW keep
    PROVE  Only(Append(s, e), keep) = IF e \in keep THEN Append(Only(s, keep), e) ELSE Only(s, keep)
<1>1. PICK n \in Nat : n = Len(s)
  OBVIOUS
<1>2. PICK u : u = Append(s, e)
  OBVIOUS
<1>3. u \in Seq(S) /\ Len(u) = n + 1 /\ u[n + 1] = e /\ \A i \in 1 .. n : u[i] = s[i]
  BY <1>1, <1>2, AppendProperties
<1>4. PICK f : /\ Only(s, keep) = f[n] /\ f[0] = <<>>
               /\ \A i \in 1 .. n :
                     f[i] = IF s[i] \in keep THEN Append(f[i - 1], s[i]) ELSE f[i - 1]
  <2>1. PICK f : Filters(f, s, keep)
    BY OnlyUnfolds
  <2> QED BY <2>1, <1>1 DEF Filters
<1>5. PICK g : /\ Only(u, keep) = g[n + 1] /\ g[0] = <<>>
               /\ \A i \in 1 .. n + 1 :
                     g[i] = IF u[i] \in keep THEN Append(g[i - 1], u[i]) ELSE g[i - 1]
  <2>1. PICK g : Filters(g, u, keep)
    BY <1>3, OnlyUnfolds
  <2> QED BY <2>1, <1>3 DEF Filters
<1>6. PICK W : W = [i \in 0 .. n |-> {f[i]}]
  OBVIOUS
<1>7. g[n] = f[n]
  <2>1. g[0] \in W[0]
    BY <1>4, <1>5, <1>6
  <2>2. ASSUME NEW i \in 1 .. n, g[i - 1] \in W[i - 1] PROVE g[i] \in W[i]
    <3>1. i \in 0 .. n /\ i - 1 \in 0 .. n /\ i \in 1 .. n + 1
      OBVIOUS
    <3>2. g[i - 1] = f[i - 1] /\ u[i] = s[i]
      BY <1>3, <1>6, <2>2, <3>1
    <3>3. g[i] = f[i]
      BY <1>4, <1>5, <3>1, <3>2
    <3> QED BY <1>6, <3>1, <3>3
  <2>3. \A i \in 1 .. n : g[i - 1] \in W[i - 1] => g[i] \in W[i]
    BY <2>2
  <2>4. \A i \in 0 .. n : g[i] \in W[i]
    BY <2>1, <2>3, Along
  <2>5. n \in 0 .. n
    OBVIOUS
  <2> QED BY <1>6, <2>4, <2>5
<1>8. n + 1 \in 1 .. n + 1 /\ n + 1 - 1 = n
  OBVIOUS
<1> QED BY <1>2, <1>3, <1>4, <1>5, <1>7, <1>8

\* Filtering looks at the elements of the list alone, and removes none of those kept.
LEMMA OnlySame ==
    ASSUME NEW S, NEW s \in Seq(S), NEW keep, NEW also,
           \A i \in 1 .. Len(s) : s[i] \in keep <=> s[i] \in also
    PROVE  /\ Only(s, keep) = Only(s, also)
           /\ (\A i \in 1 .. Len(s) : s[i] \in keep) => Only(s, keep) = s
<1>1. PICK n \in Nat : n = Len(s)
  OBVIOUS
<1>2. PICK f : /\ Only(s, keep) = f[n] /\ f[0] = <<>>
               /\ \A i \in 1 .. n :
                     f[i] = IF s[i] \in keep THEN Append(f[i - 1], s[i]) ELSE f[i - 1]
  <2>1. PICK f : Filters(f, s, keep)
    BY OnlyUnfolds
  <2> QED BY <2>1, <1>1 DEF Filters
<1>3. PICK g : /\ Only(s, also) = g[n] /\ g[0] = <<>>
               /\ \A i \in 1 .. n :
                     g[i] = IF s[i] \in also THEN Append(g[i - 1], s[i]) ELSE g[i - 1]
  <2>1. PICK g : Filters(g, s, also)
    BY OnlyUnfolds
  <2> QED BY <2>1, <1>1 DEF Filters
<1>4. \A i \in 1 .. n : i \in 0 .. n /\ i - 1 \in 0 .. n
  OBVIOUS
<1>5. g[n] = f[n]
  <2>1. PICK W : W = [i \in 0 .. n |-> {f[i]}]
    OBVIOUS
  <2>2. g[0] \in W[0]
    BY <1>2, <1>3, <2>1
  <2>3. \A i \in 1 .. n : g[i - 1] \in W[i - 1] => g[i] \in W[i]
    BY <1>1, <1>2, <1>3, <1>4, <2>1
  <2>4. \A i \in 0 .. n : g[i] \in W[i]
    BY <2>2, <2>3, Along
  <2>5. n \in 0 .. n
    OBVIOUS
  <2> QED BY <2>1, <2>4, <2>5
<1>6. ASSUME \A i \in 1 .. n : s[i] \in keep PROVE f[n] = s
  <2>1. PICK W : W = [i \in 0 .. n |-> {SubSeq(s, 1, i)}]
    OBVIOUS
  <2>2. f[0] \in W[0]
    <3>1. SubSeq(s, 1, 0) = <<>>
      BY SubSeqEmpty
    <3> QED BY <1>2, <2>1, <3>1
  <2>3. ASSUME NEW i \in 1 .. n, f[i - 1] \in W[i - 1] PROVE f[i] \in W[i]
    <3>1. PICK r \in Seq(S) : r = SubSeq(s, 1, i - 1)
      <4>1. \A k \in 1 .. i - 1 : s[k] \in S
        BY <1>1
      <4>2. i - 1 \in Int
        OBVIOUS
      <4>3. SubSeq(s, 1, i - 1) \in Seq(S)
        BY <4>1, <4>2, SubSeqProperties
      <4> QED BY <4>3
    <3>2. SubSeq(s, 1, i) = r \o <<s[i]>>
      BY <1>1, <3>1, SubSeqRecursiveSecond
    <3>3. s[i] \in S
      BY <1>1
    <3>4. Append(r, s[i]) = SubSeq(s, 1, i)
      BY <3>2, <3>3, AppendIsConcat
    <3>5. f[i - 1] = r
      BY <1>4, <2>1, <2>3, <3>1
    <3>6. f[i] = Append(r, s[i])
      BY <1>2, <1>6, <3>5
    <3> QED BY <1>4, <2>1, <3>4, <3>6
  <2>4. \A i \in 1 .. n : f[i - 1] \in W[i - 1] => f[i] \in W[i]
    BY <2>3
  <2>5. \A i \in 0 .. n : f[i] \in W[i]
    BY <2>2, <2>4, Along
  <2>6. n \in 0 .. n /\ SubSeq(s, 1, n) = s
    BY <1>1, SubSeqFull
  <2> QED BY <2>1, <2>5, <2>6
<1> QED BY <1>1, <1>2, <1>3, <1>5, <1>6

\* A filtered list is made of what was kept.
LEMMA OnlyWithin ==
    ASSUME NEW S, NEW s \in Seq(S), NEW keep
    PROVE  Only(s, keep) \in Seq(S \cap keep)
<1>1. PICK T : T = {a \in Seq(S) : Only(a, keep) \in Seq(S \cap keep)}
  OBVIOUS
<1>2. <<>> \in T
  <2>1. PICK e \in Seq(S) : e = <<>>
    BY EmptySeq
  <2>2. PICK f : Only(e, keep) = f[Len(e)] /\ f[0] = <<>>
    <3>1. PICK f : Filters(f, e, keep)
      BY OnlyUnfolds
    <3> QED BY <3>1 DEF Filters
  <2>3. Only(e, keep) = e /\ e \in Seq(S \cap keep)
    BY <2>1, <2>2, EmptySeq
  <2>4. e \in T
    BY <1>1, <2>3
  <2> QED BY <2>1, <2>4
<1>3. ASSUME NEW a \in Seq(S), NEW e \in S, a \in T PROVE Append(a, e) \in T
  <2>1. PICK o \in Seq(S \cap keep) : o = Only(a, keep)
    BY <1>1, <1>3
  <2>2. Only(Append(a, e), keep) = IF e \in keep THEN Append(o, e) ELSE o
    <3>1. Only(Append(a, e), keep)
            = IF e \in keep THEN Append(Only(a, keep), e) ELSE Only(a, keep)
      BY OnlyAppended
    <3> QED BY <3>1, <2>1
  <2>3. Append(a, e) \in Seq(S)
    OBVIOUS
  <2>4. e \in keep => Append(o, e) \in Seq(S \cap keep)
    OBVIOUS
  <2> QED BY <1>1, <2>2, <2>3, <2>4
<1>4. s \in T
  BY <1>2, <1>3, Growing
<1> QED BY <1>1, <1>4

\* Nothing is left of a list of which nothing is kept.
LEMMA OnlyNone ==
    ASSUME NEW S, NEW s \in Seq(S), NEW keep, \A i \in 1 .. Len(s) : s[i] \notin keep
    PROVE  Only(s, keep) = <<>>
<1>1. Only(s, keep) = Only(s, {})
  <2>1. \A i \in 1 .. Len(s) : s[i] \in keep <=> s[i] \in {}
    OBVIOUS
  <2> QED BY <2>1, OnlySame
<1>2. Only(s, {}) \in Seq(S \cap {})
  BY OnlyWithin
<1>3. PICK o : o = Only(s, {})
  OBVIOUS
<1>4. o \in Seq({})
  <2>1. S \cap {} = {}
    OBVIOUS
  <2> QED BY <1>2, <1>3, <2>1
<1>5. Len(o) = 0
  <2>1. ASSUME Len(o) # 0 PROVE FALSE
    <3>1. o[1] \in {}
      BY <1>4, <2>1
    <3> QED BY <3>1
  <2> QED BY <2>1
<1> QED BY <1>1, <1>3, <1>4, <1>5

=============================================================================
