--------------------------- MODULE ChunkingProofs ---------------------------
(***************************************************************************)
(* How a document is cut into blocks and cut again, for any document,      *)
(* settings and sequence of changes: the blocks hold every cue once and    *)
(* keep to the limits, and a sentence is cut only where it has to be.  And *)
(* how a document is read, written and read again: an export is the        *)
(* document it was made of.                                                *)
(*                                                                         *)
(* The cut, its sums, the reading and the writing of a file are recursive  *)
(* functions; the induction they need is in ListTheorems.                  *)
(***************************************************************************)
EXTENDS Chunking, SequenceTheorems, ListTheorems, TLAPS

-----------------------------------------------------------------------------
(* Characters.                                                             *)

\* p[i] is the length of the first i cues of c.
Sums(c, p) ==
    /\ p \in [0 .. Len(c) -> Nat] /\ p[0] = 0
    /\ \A i \in 1 .. Len(c) : p[i] = p[i - 1] + c[i].length

LEMMA SumsExist ==
    ASSUME NEW c \in Seq(Measure) PROVE \E p : Sums(c, p)
<1>0. PICK n \in Nat : n = Len(c)
  OBVIOUS
<1>1. \A i \in 1 .. n : c[i].length \in Nat
  <2>1. \A i \in 1 .. n : c[i] \in Measure
    BY <1>0
  <2> QED BY <2>1 DEF Measure
<1> DEFINE Up(k, p) == p[0] = 0 /\ \A i \in 1 .. k : p[i] = p[i - 1] + c[i].length
           T == {k \in 0 .. n : \E p \in [0 .. k -> Nat] : Up(k, p)}
<1>2. 0 \in T
  <2>1. [i \in 0 .. 0 |-> 0] \in [0 .. 0 -> Nat] /\ Up(0, [i \in 0 .. 0 |-> 0])
    OBVIOUS
  <2>2. 0 \in 0 .. n
    OBVIOUS
  <2> QED BY <2>1, <2>2
<1>3. ASSUME NEW k \in 0 .. n - 1, k \in T PROVE k + 1 \in T
  <2>1. PICK p \in [0 .. k -> Nat] : Up(k, p)
    BY <1>3
  <2>2. PICK x \in Nat : x = p[k] + c[k + 1].length
    <3>1. p[k] \in Nat /\ c[k + 1].length \in Nat
      BY <1>1
    <3> QED BY <3>1
  <2>3. PICK q : q = [i \in 0 .. k + 1 |-> IF i = k + 1 THEN x ELSE p[i]]
    OBVIOUS
  <2>4. /\ q \in [0 .. k + 1 -> Nat] /\ q[k + 1] = x
        /\ \A i \in 0 .. k : q[i] = p[i]
    BY <2>3
  <2>5. ASSUME NEW i \in 1 .. k + 1 PROVE q[i] = q[i - 1] + c[i].length
    <3>1. CASE i = k + 1
      BY <3>1, <2>2, <2>4
    <3>2. CASE i # k + 1
      <4>1. i \in 1 .. k /\ i - 1 \in 0 .. k /\ i \in 0 .. k
        BY <3>2
      <4> QED BY <4>1, <2>1, <2>4
    <3> QED BY <3>1, <3>2
  <2>6. Up(k + 1, q) /\ k + 1 \in 0 .. n
    BY <2>1, <2>4, <2>5
  <2> QED BY <2>4, <2>6
<1>4. n \in T
  <2>1. PICK S : S = T
    OBVIOUS
  <2>2. 0 \in S /\ \A k \in 0 .. n - 1 : k \in S => k + 1 \in S
    BY <2>1, <1>2, <1>3
  <2>3. n \in 0 .. n
    OBVIOUS
  <2>4. n \in S
    BY <2>2, <2>3, UpTo
  <2> QED BY <2>1, <2>4
<1> QED BY <1>0, <1>4 DEF Sums

\* The sums grow.
LEMMA SumsGrow ==
    ASSUME NEW c \in Seq(Measure), NEW p, Sums(c, p), NEW i \in 0 .. Len(c), NEW k \in i .. Len(c)
    PROVE  p[i] <= p[k]
<1>0. PICK n \in Nat : n = Len(c)
  OBVIOUS
<1>1. /\ p \in [0 .. n -> Nat] /\ i \in 0 .. n /\ k \in i .. n
      /\ \A j \in 1 .. n : p[j] = p[j - 1] + c[j].length /\ c[j].length \in Nat
  <2>1. \A j \in 1 .. n : c[j] \in Measure
    BY <1>0
  <2> QED BY <1>0, <2>1 DEF Sums, Measure
<1> DEFINE T == {d \in 0 .. n - i : p[i] <= p[i + d]}
<1>2. 0 \in T
  BY <1>1
<1>3. ASSUME NEW d \in 0 .. (n - i) - 1, d \in T PROVE d + 1 \in T
  <2>1. PICK j \in 1 .. n : j = i + d + 1
    BY <1>1
  <2>2. j - 1 = i + d /\ i + (d + 1) = j /\ i \in 0 .. n /\ j - 1 \in 0 .. n
    BY <2>1, <1>1
  <2>3. p[i] \in Nat /\ p[j - 1] \in Nat /\ p[j] = p[j - 1] + c[j].length /\ c[j].length \in Nat
    BY <2>2, <1>1
  <2>4. p[i] <= p[j]
    <3>1. p[i] <= p[i + d]
      BY <1>3
    <3>2. p[i + d] = p[j - 1]
      BY <2>2
    <3>3. p[i] <= p[j - 1]
      BY <3>1, <3>2
    <3> QED BY <2>3, <3>3
  <2> QED BY <2>2, <2>4
<1>4. k - i \in T
  <2>1. PICK S : S = T
    OBVIOUS
  <2>2. 0 \in S /\ \A d \in 0 .. (n - i) - 1 : d \in S => d + 1 \in S
    BY <2>1, <1>2, <1>3
  <2>3. n - i \in Nat /\ k - i \in 0 .. n - i
    BY <1>1
  <2>4. k - i \in S
    BY <2>2, <2>3, UpTo
  <2> QED BY <2>1, <2>4
<1>5. i + (k - i) = k
  BY <1>1
<1> QED BY <1>4, <1>5

\* What Characters adds up is a difference of sums.
LEMMA CharactersSum ==
    ASSUME NEW c \in Seq(Measure), NEW p, Sums(c, p),
           NEW from \in 1 .. Len(c) + 1, NEW to \in from - 1 .. Len(c)
    PROVE  Characters(c, from, to) = p[to] - p[from - 1]
<1>0. PICK n \in Nat : n = Len(c)
  OBVIOUS
<1>1. PICK a \in 0 .. n : a = from - 1
  <2>1. from - 1 \in 0 .. n
    BY <1>0
  <2> QED BY <2>1
<1>2. /\ p \in [0 .. n -> Nat] /\ to \in a .. n
      /\ \A j \in 1 .. n : p[j] = p[j - 1] + c[j].length /\ c[j].length \in Nat
  <2>1. \A j \in 1 .. n : c[j] \in Measure
    BY <1>0
  <2> QED BY <1>0, <1>1, <2>1 DEF Sums, Measure
<1> DEFINE F(f) == [i \in from - 1 .. to |-> IF i < from THEN 0 ELSE f[i - 1] + c[i].length]
           sum == CHOOSE f : f = F(f)
<1>3. PICK g : g = [i \in from - 1 .. to |-> p[i] - p[a]]
  OBVIOUS
<1>4. g = F(g)
  <2>1. ASSUME NEW i \in from - 1 .. to
        PROVE  g[i] = IF i < from THEN 0 ELSE g[i - 1] + c[i].length
    <3>1. CASE i < from
      <4>1. i = a /\ p[a] \in Nat
        BY <3>1, <1>1, <1>2
      <4> QED BY <4>1, <3>1, <1>3
    <3>2. CASE ~(i < from)
      <4>1. i \in 1 .. n /\ i - 1 \in from - 1 .. to /\ i - 1 \in 0 .. n /\ i \in 0 .. n
        BY <3>2, <1>1, <1>2
      <4>2. p[i] = p[i - 1] + c[i].length /\ c[i].length \in Nat
        BY <4>1, <1>2
      <4>3. p[i - 1] \in Nat /\ p[a] \in Nat
        BY <4>1, <1>1, <1>2
      <4>4. g[i] = p[i] - p[a] /\ g[i - 1] = p[i - 1] - p[a]
        BY <4>1, <1>3
      <4> QED BY <3>2, <4>2, <4>3, <4>4
    <3> QED BY <3>1, <3>2
  <2>2. F(g) = [i \in from - 1 .. to |-> g[i]]
    BY <2>1
  <2> QED BY <2>2, <1>3
<1>5. sum = F(sum)
  BY <1>4
<1>6. Characters(c, from, to) = sum[to]
  BY DEF Characters
<1>7. PICK f : f = sum
  OBVIOUS
<1>8. \A i \in a .. to : f[i] = IF i < from THEN 0 ELSE f[i - 1] + c[i].length
  <2>1. f = [i \in from - 1 .. to |-> IF i < from THEN 0 ELSE f[i - 1] + c[i].length]
    BY <1>5, <1>7
  <2> QED BY <2>1, <1>1
<1> HIDE DEF sum
<1> DEFINE T == {d \in 0 .. to - a : f[a + d] = p[a + d] - p[a]}
<1>9. 0 \in T
  <2>1. f[a] = 0 /\ p[a] \in Nat /\ a + 0 = a /\ 0 \in 0 .. to - a
    BY <1>1, <1>2, <1>8
  <2> QED BY <2>1
<1>10. ASSUME NEW d \in 0 .. (to - a) - 1, d \in T PROVE d + 1 \in T
  <2>1. PICK j \in 1 .. n : j = a + d + 1
    BY <1>1, <1>2
  <2>2. /\ j - 1 = a + d /\ a + (d + 1) = j /\ j \in a .. to /\ ~(j < from)
        /\ j - 1 \in 0 .. n /\ a \in 0 .. n /\ d + 1 \in 0 .. to - a
    BY <2>1, <1>1, <1>2
  <2>3. f[j] = f[j - 1] + c[j].length
    BY <2>2, <1>8
  <2>4. f[j - 1] = p[j - 1] - p[a]
    BY <1>10, <2>2
  <2>5. p[j] = p[j - 1] + c[j].length /\ c[j].length \in Nat /\ p[j - 1] \in Nat /\ p[a] \in Nat
    BY <2>2, <1>2
  <2>6. f[j] = p[j] - p[a]
    BY <2>3, <2>4, <2>5, SMTT(20)
  <2> QED BY <2>2, <2>6
<1>11. to - a \in T
  <2>1. PICK S : S = T
    OBVIOUS
  <2>2. 0 \in S /\ \A d \in 0 .. (to - a) - 1 : d \in S => d + 1 \in S
    BY <2>1, <1>9, <1>10
  <2>3. to - a \in Nat /\ to - a \in 0 .. to - a
    BY <1>2
  <2>4. to - a \in S
    BY <2>2, <2>3, UpTo
  <2> QED BY <2>1, <2>4
<1>12. a + (to - a) = to
  BY <1>1, <1>2
<1> QED BY <1>1, <1>6, <1>7, <1>11, <1>12

\* Fewer cues have no more characters.
LEMMA CharactersWithin ==
    ASSUME NEW c \in Seq(Measure), NEW a \in 0 .. Len(c), NEW b \in a .. Len(c),
           NEW d \in b .. Len(c), NEW e \in d .. Len(c)
    PROVE  Characters(c, b + 1, d) <= Characters(c, a + 1, e)
<1>0. PICK n \in Nat : n = Len(c)
  OBVIOUS
<1>1. PICK p : Sums(c, p)
  BY SumsExist
<1>2. /\ a \in 0 .. n /\ b \in 0 .. n /\ d \in 0 .. n /\ e \in 0 .. n
      /\ b \in a .. n /\ d \in b .. n /\ e \in d .. n
  BY <1>0
<1>3. p[a] <= p[b] /\ p[d] <= p[e]
  BY <1>0, <1>1, <1>2, SumsGrow
<1>4. Characters(c, b + 1, d) = p[d] - p[b]
  <2>1. PICK f \in 1 .. n + 1 : f = b + 1
    BY <1>2
  <2>2. f - 1 = b /\ d \in f - 1 .. n
    BY <2>1, <1>2
  <2>3. Characters(c, f, d) = p[d] - p[f - 1]
    BY <2>2, <1>0, <1>1, CharactersSum
  <2> QED BY <2>1, <2>2, <2>3
<1>5. Characters(c, a + 1, e) = p[e] - p[a]
  <2>1. PICK f \in 1 .. n + 1 : f = a + 1
    BY <1>2
  <2>2. f - 1 = a /\ e \in f - 1 .. n
    BY <2>1, <1>2
  <2>3. Characters(c, f, e) = p[e] - p[f - 1]
    BY <2>2, <1>0, <1>1, CharactersSum
  <2> QED BY <2>1, <2>2, <2>3
<1>6. p[a] \in Nat /\ p[b] \in Nat /\ p[d] \in Nat /\ p[e] \in Nat
  BY <1>0, <1>1, <1>2 DEF Sums
<1> QED BY <1>3, <1>4, <1>5, <1>6, SMTT(20)

LEMMA CharactersType ==
    ASSUME NEW c \in Seq(Measure), NEW a \in 0 .. Len(c), NEW e \in a .. Len(c)
    PROVE  Characters(c, a + 1, e) \in Nat
<1>0. PICK n \in Nat : n = Len(c)
  OBVIOUS
<1>1. PICK p : Sums(c, p)
  BY SumsExist
<1>2. PICK f \in 1 .. n + 1 : f = a + 1 /\ f - 1 = a /\ e \in f - 1 .. n
  BY <1>0
<1>3. Characters(c, f, e) = p[e] - p[a]
  BY <1>0, <1>1, <1>2, CharactersSum
<1>4. p[a] <= p[e]
  BY <1>0, <1>1, SumsGrow
<1>5. p[a] \in Nat /\ p[e] \in Nat
  BY <1>0, <1>1 DEF Sums
<1> QED BY <1>2, <1>3, <1>4, <1>5

\* The cues after the first d have the characters they have in the whole.
LEMMA CharactersMoved ==
    ASSUME NEW c \in Seq(Measure), NEW d \in 0 .. Len(c), NEW r, r = SubSeq(c, d + 1, Len(c)),
           NEW a \in 0 .. Len(c) - d, NEW e \in a .. Len(c) - d
    PROVE  Characters(r, a + 1, e) = Characters(c, a + d + 1, e + d)
<1>0. PICK n \in Nat, m \in Nat : n = Len(c) /\ d + m = n
  <2>1. PICK n \in Nat : n = Len(c)
    OBVIOUS
  <2>2. PICK m \in Nat : m = n - d
    <3>1. n - d \in Nat
      BY <2>1
    <3> QED BY <3>1
  <2>3. d + m = n
    BY <2>1, <2>2
  <2> QED BY <2>1, <2>3
<1>1. r \in Seq(Measure) /\ Len(r) = m /\ \A i \in 1 .. m : r[i] = c[d + i]
  <2>1. PICK x \in Nat : x = d + 1
    OBVIOUS
  <2>2. r = SubSeq(c, x, n) /\ n - x + 1 = m /\ x \in 1 .. n + 1
    BY <2>1, <1>0
  <2>3. \A i \in 1 .. m : x + i - 1 = d + i /\ d + i \in 1 .. n
    BY <2>1, <1>0
  <2> QED BY <2>2, <2>3, <1>0
<1>2. PICK p : Sums(c, p)
  BY SumsExist
<1>3. /\ p \in [0 .. n -> Nat]
      /\ \A j \in 1 .. n : p[j] = p[j - 1] + c[j].length
  BY <1>0, <1>2 DEF Sums
<1>4. PICK q : q = [i \in 0 .. m |-> p[d + i] - p[d]]
  OBVIOUS
<1>5. Sums(r, q)
  <2>1. ASSUME NEW i \in 0 .. m PROVE q[i] \in Nat
    <3>1. PICK j \in d .. n : j = d + i
      BY <1>0
    <3>2. p[d] <= p[j]
      <4>1. d \in 0 .. Len(c) /\ j \in d .. Len(c)
        BY <3>1, <1>0
      <4> QED BY <4>1, <1>2, SumsGrow
    <3>4. p[d] \in Nat /\ p[j] \in Nat
      <4>1. d \in 0 .. n /\ j \in 0 .. n
        BY <3>1, <1>0
      <4> QED BY <4>1, <1>3
    <3>3. q[i] = p[j] - p[d]
      BY <3>1, <1>4
    <3> QED BY <3>2, <3>3, <3>4
  <2>2. q[0] = 0
    <3>1. p[d] \in Nat /\ d + 0 = d /\ 0 \in 0 .. m
      BY <1>0, <1>3, SMTT(20)
    <3> QED BY <3>1, <1>4
  <2>3. ASSUME NEW i \in 1 .. m PROVE q[i] = q[i - 1] + r[i].length
    <3>1. PICK j \in 1 .. n : j = d + i
      BY <1>0
    <3>2. j - 1 = d + (i - 1) /\ i - 1 \in 0 .. m /\ j - 1 \in 0 .. n /\ d \in 0 .. n
      BY <3>1, <1>0
    <3>3. q[i] = p[j] - p[d] /\ q[i - 1] = p[j - 1] - p[d]
      BY <3>1, <3>2, <1>4
    <3>4. p[j] = p[j - 1] + c[j].length /\ r[i] = c[j]
      BY <3>1, <1>1, <1>3
    <3>5. p[j] \in Nat /\ p[j - 1] \in Nat /\ p[d] \in Nat /\ c[j].length \in Nat
      <4>1. c[j] \in Measure
        BY <1>0
      <4> QED BY <4>1, <3>2, <1>3 DEF Measure
    <3>6. PICK l \in Nat : l = c[j].length
      BY <3>5
    <3>7. PICK x \in Nat, y \in Nat : x = p[j - 1] /\ y = p[d]
      BY <3>5
    <3>8. p[j] = x + l /\ q[i] = p[j] - y /\ q[i - 1] = x - y /\ r[i].length = l
      BY <3>3, <3>4, <3>6, <3>7
    <3>9. q[i] = (x - y) + l
      <4>1. (x + l) - y = (x - y) + l
        OBVIOUS
      <4> QED BY <4>1, <3>8
    <3> QED BY <3>8, <3>9
  <2>4. q \in [0 .. m -> Nat]
    BY <2>1, <1>4
  <2> QED BY <2>2, <2>3, <2>4, <1>1 DEF Sums
<1>6. Characters(r, a + 1, e) = q[e] - q[a]
  <2>1. PICK f \in 1 .. m + 1 : f = a + 1 /\ f - 1 = a /\ e \in f - 1 .. m
    BY <1>0
  <2> QED BY <2>1, <1>1, <1>5, CharactersSum, ZenonT(20)
<1>7. PICK x \in 0 .. n, y \in 0 .. n : y \in x .. n /\ x = a + d /\ y = e + d
  BY <1>0
<1>8. Characters(c, x + 1, y) = p[y] - p[x]
  <2>1. PICK f \in 1 .. n + 1 : f = x + 1 /\ f - 1 = x /\ y \in f - 1 .. n
    BY <1>7
  <2> QED BY <2>1, <1>0, <1>2, CharactersSum
<1>9. q[e] = p[y] - p[d] /\ q[a] = p[x] - p[d]
  <2>1. e \in 0 .. m /\ a \in 0 .. m /\ y = d + e /\ x = d + a
    BY <1>0, <1>7
  <2> QED BY <2>1, <1>4
<1>10. p[y] \in Nat /\ p[x] \in Nat /\ p[d] \in Nat
  BY <1>0, <1>3, <1>7
<1>11. a + d + 1 = x + 1
  BY <1>7
<1> QED BY <1>6, <1>7, <1>8, <1>9, <1>10, <1>11, SMTT(20)

-----------------------------------------------------------------------------
(* One block.                                                              *)

\* A block may end at the next cue, and not beyond the last.
LEMMA HardEndFits ==
    ASSUME NEW c \in Seq(Measure), NEW s, Valid(s), NEW start \in 0 .. Len(c) - 1
    PROVE  /\ HardEnd(c, s, start) \in start + 1 .. Len(c)
           /\ Fits(c, s, start, HardEnd(c, s, start))
           /\ ~Fits(c, s, start, HardEnd(c, s, start) + 1)
<1>0. PICK n \in Nat : n = Len(c)
  OBVIOUS
<1> DEFINE T == {e \in 0 .. n : Fits(c, s, start, e)}
<1>1. Fits(c, s, start, start + 1)
  BY DEF Fits, Valid
<1>2. PICK a \in 1 .. n : a = start + 1
  BY <1>0
<1>3. a \in T /\ n + 1 \notin T /\ \A e \in a .. n : e \in T <=> Fits(c, s, start, e)
  BY <1>1, <1>2
<1>4. ~Fits(c, s, start, n + 1)
  BY <1>0 DEF Fits
<1>5. PICK e \in a .. n : e \in T /\ e + 1 \notin T
  <2>1. PICK S : S = T
    OBVIOUS
  <2>2. a \in S /\ n + 1 \notin S /\ a <= n
    BY <2>1, <1>3
  <2>3. \E e \in a .. n : e \in S /\ e + 1 \notin S
    BY <2>2, Turns
  <2> QED BY <2>1, <2>3
<1>6. ~Fits(c, s, start, e + 1)
  <2>1. CASE e = n
    BY <2>1, <1>4
  <2>2. CASE e # n
    BY <2>2, <1>5
  <2> QED BY <2>1, <2>2
<1>7. e \in start + 1 .. Len(c) /\ Fits(c, s, start, e) /\ ~Fits(c, s, start, e + 1)
  BY <1>0, <1>2, <1>5, <1>6
<1> QED BY <1>7 DEF HardEnd

\* Where a longer block fits, a shorter one does.
LEMMA ShorterFits ==
    ASSUME NEW c \in Seq(Measure), NEW s, Valid(s), NEW start \in 0 .. Len(c) - 1,
           NEW e \in start + 1 .. Len(c), Fits(c, s, start, e), NEW i \in start + 1 .. e
    PROVE  Fits(c, s, start, i)
<1>1. i \in start .. Len(c) /\ start \in 0 .. Len(c) /\ e \in i .. Len(c) /\ start \in start .. Len(c)
  OBVIOUS
<1>2. Characters(c, start + 1, i) <= Characters(c, start + 1, e)
  BY <1>1, CharactersWithin
<1>3. Characters(c, start + 1, i) \in Nat /\ Characters(c, start + 1, e) \in Nat
  BY <1>1, CharactersType
<1> QED BY <1>2, <1>3 DEF Fits, Valid

LEMMA MinimumType ==
    ASSUME NEW s, Valid(s) PROVE Minimum(s) \in Nat \ {0}
<1>1. PICK t \in Nat \ {0} : t = s.target
  BY DEF Valid
<1>2. (3 * t + 3) \div 4 \in Nat \ {0}
  OBVIOUS
<1> QED BY <1>1, <1>2 DEF Minimum

LEMMA QualityType ==
    ASSUME NEW c \in Seq(Measure), NEW s, NEW i \in 1 .. Len(c)
    PROVE  Quality(c, s, i) \in Nat
BY DEF Quality

LEMMA ScoreType ==
    ASSUME NEW c \in Seq(Measure), NEW s, Valid(s), NEW start \in 0 .. Len(c) - 1,
           NEW i \in 1 .. Len(c)
    PROVE  Score(c, s, start, i) \in Int
<1>1. PICK q \in Nat : q = Quality(c, s, i)
  BY QualityType
<1>2. PICK t \in Nat : t = s.target
  BY DEF Valid
<1>3. PICK m \in Nat : m = Minimum(s)
  BY MinimumType
<1>4. PICK rest \in Int : rest = Len(c) - i
  OBVIOUS
<1>5. PICK d \in Int : d = Distance(i - start, s.target)
  BY <1>2 DEF Distance
<1>6. PICK x \in Int : x = q + (IF rest = 0 THEN 1 ELSE 0)
  OBVIOUS
<1>7. x * t * m \in Int /\ 3 * d * m \in Int /\ 2 * (m - rest) * t \in Int
  <2>1. x * t \in Int
    BY <1>2, <1>6
  <2>2. (x * t) * m \in Int
    BY <2>1
  <2>3. 3 * d \in Int
    OBVIOUS
  <2>4. (3 * d) * m \in Int
    BY <2>3
  <2>5. 2 * (m - rest) \in Int
    OBVIOUS
  <2>6. (2 * (m - rest)) * t \in Int
    BY <2>5
  <2> QED BY <2>2, <2>4, <2>6
<1>8. PICK u \in Int, v \in Int, w \in Int :
         u = x * t * m /\ v = 3 * d * m /\ w = 2 * (m - rest) * t
  BY <1>7
<1>9. Score(c, s, start, i) =
         x * t * m - 3 * d * m - (IF rest \in 1 .. m - 1 THEN 2 * (m - rest) * t ELSE 0)
  BY <1>1, <1>2, <1>3, <1>4, <1>5, <1>6, Zenon DEF Score
<1>10. Score(c, s, start, i) = u - v - (IF rest \in 1 .. m - 1 THEN w ELSE 0)
  BY <1>8, <1>9, Zenon
<1> QED BY <1>10

\* There is a first among the best places.
LEMMA BestPlace ==
    ASSUME NEW c \in Seq(Measure), NEW s, Valid(s), NEW start \in 0 .. Len(c) - 1,
           Places(c, s, start) # {}
    PROVE  Best(c, s, start) \in Places(c, s, start)
<1>0. PICK n \in Nat : n = Len(c)
  OBVIOUS
<1>1. PICK P : P = Places(c, s, start)
  OBVIOUS
<1>2. P \in SUBSET (0 .. n) /\ \A i \in P : i \in 1 .. n
  <2>1. PICK m \in Nat \ {0} : m = Minimum(s)
    BY MinimumType
  <2>2. PICK h \in 0 .. n : h = HardEnd(c, s, start)
    BY <1>0, HardEndFits
  <2>3. P \subseteq start + m .. h
    BY <1>1, <2>1, <2>2 DEF Places
  <2> QED BY <2>3, <1>0
<1>3. PICK f : f = [i \in P |-> Score(c, s, start, i)]
  OBVIOUS
<1>4. f \in [P -> Int]
  BY <1>0, <1>2, <1>3, ScoreType
<1>5. P # {}
  BY <1>1
<1>6. PICK i \in P : \A k \in P \ {i} : IF k < i THEN f[k] < f[i] ELSE f[k] <= f[i]
  BY <1>2, <1>4, <1>5, First
<1>7. \A k \in P \ {i} : IF k < i THEN Score(c, s, start, k) < Score(c, s, start, i)
                         ELSE Score(c, s, start, k) <= Score(c, s, start, i)
  BY <1>3, <1>6, Zenon
<1> QED BY <1>1, <1>7, Zenon DEF Best

\* A place is within the hard end.
LEMMA PlaceWithin ==
    ASSUME NEW c \in Seq(Measure), NEW s, Valid(s), NEW start \in 0 .. Len(c) - 1,
           NEW i \in Places(c, s, start)
    PROVE  /\ i \in start + 1 .. HardEnd(c, s, start) /\ i \in 1 .. Len(c)
           /\ Quality(c, s, i) > 0 \/ i = Len(c)
<1>1. PICK m \in Nat \ {0} : m = Minimum(s)
  BY MinimumType
<1>2. PICK h \in start + 1 .. Len(c) : h = HardEnd(c, s, start)
  BY HardEndFits
<1>3. i \in start + m .. h /\ (Quality(c, s, i) > 0 \/ i = Len(c))
  BY <1>1, <1>2 DEF Places
<1>4. i \in start + 1 .. h /\ i \in 1 .. Len(c)
  BY <1>3
<1> QED BY <1>2, <1>3, <1>4

\* A block that ends at e neither cuts a sentence nor could have been longer, or it
\* ends with the document.
Broken(c, s, start, e) ==
    \/ e = Len(c)
    \/ Quality(c, s, e) > 0
    \/ /\ ~Fits(c, s, start, e + 1)
       /\ \A i \in start + Minimum(s) .. e : Quality(c, s, i) = 0

\* Where a block ends: it fits, and cuts a sentence only if it has to.
LEMMA BlockEndFits ==
    ASSUME NEW c \in Seq(Measure), NEW s, Valid(s), NEW start \in 0 .. Len(c) - 1
    PROVE  /\ BlockEnd(c, s, start) \in start + 1 .. Len(c)
           /\ Fits(c, s, start, BlockEnd(c, s, start))
           /\ Broken(c, s, start, BlockEnd(c, s, start))
<1>1. PICK h \in start + 1 .. Len(c) : h = HardEnd(c, s, start)
  BY HardEndFits
<1>2. Fits(c, s, start, h) /\ ~Fits(c, s, start, h + 1)
  BY <1>1, HardEndFits
<1>3. CASE (h = Len(c) /\ h - start <= s.target) \/ Places(c, s, start) = {}
  <2>1. BlockEnd(c, s, start) = h
    BY <1>1, <1>3 DEF BlockEnd
  <2>2. CASE h = Len(c)
    BY <2>1, <2>2, <1>2 DEF Broken
  <2>3. CASE Places(c, s, start) = {}
    <3>1. ASSUME NEW i \in start + Minimum(s) .. h PROVE Quality(c, s, i) = 0
      <4>1. ~(Quality(c, s, i) > 0)
        BY <2>3, <1>1 DEF Places
      <4>2. i \in 1 .. Len(c)
        <5>1. PICK m \in Nat \ {0} : m = Minimum(s)
          BY MinimumType
        <5>2. i \in start + m .. h
          BY <5>1
        <5> QED BY <5>2
      <4>3. Quality(c, s, i) \in Nat
        BY <4>2, QualityType
      <4> QED BY <4>1, <4>3
    <3> QED BY <3>1, <2>1, <1>2 DEF Broken
  <2> QED BY <1>3, <2>2, <2>3
<1>4. CASE ~((h = Len(c) /\ h - start <= s.target) \/ Places(c, s, start) = {})
  <2>1. PICK e \in Places(c, s, start) : e = BlockEnd(c, s, start)
    BY <1>1, <1>4, BestPlace DEF BlockEnd
  <2>2. /\ e \in start + 1 .. h /\ e \in 1 .. Len(c)
        /\ Quality(c, s, e) > 0 \/ e = Len(c)
    BY <2>1, <1>1, PlaceWithin
  <2>3. Fits(c, s, start, e)
    BY <2>2, <1>2, ShorterFits
  <2>4. e \in start + 1 .. Len(c)
    BY <2>2
  <2> QED BY <2>1, <2>2, <2>3, <2>4 DEF Broken
<1> QED BY <1>3, <1>4

-----------------------------------------------------------------------------
(* The cut.                                                                *)

\* The blocks b hold the cues a + 1 .. n of a document once and in order.
Tiling(b, a, n) ==
    /\ b \in Seq(Block)
    /\ b = <<>> <=> a = n
    /\ b # <<>> => b[1].start = a /\ b[Len(b)].end = n
    /\ \A i \in 1 .. Len(b) : b[i].start < b[i].end
    /\ \A i \in 1 .. Len(b) - 1 : b[i].end = b[i + 1].start

\* Every block keeps to the limits and ends well.
WellCut(c, s, b) ==
    \A i \in 1 .. Len(b) : /\ b[i].start \in 0 .. Len(c) /\ b[i].end \in 0 .. Len(c)
                           /\ Fits(c, s, b[i].start, b[i].end)
                           /\ Broken(c, s, b[i].start, b[i].end)

\* What a block and the cut of the rest come to.
LEMMA OneMore ==
    ASSUME NEW c \in Seq(Measure), NEW s, NEW a \in 0 .. Len(c), NEW e \in a + 1 .. Len(c),
           Fits(c, s, a, e), Broken(c, s, a, e),
           NEW r, Tiling(r, e, Len(c)), WellCut(c, s, r),
           NEW b, b = <<[start |-> a, end |-> e]>> \o r
    PROVE  Tiling(b, a, Len(c)) /\ WellCut(c, s, b)
<1>0. PICK n \in Nat, l \in Nat : n = Len(c) /\ l = Len(r)
  BY DEF Tiling
<1>1. PICK x \in Block : x = [start |-> a, end |-> e]
  BY SMTT(20) DEF Block
<1>2. r \in Seq(Block)
  BY DEF Tiling
<1>3. b \in Seq(Block) /\ Len(b) = l + 1 /\ b[1] = x /\ \A i \in 1 .. l : b[i + 1] = r[i]
  BY <1>0, <1>1, <1>2
<1>4. \A i \in 1 .. l + 1 : i = 1 \/ \E k \in 1 .. l : i = k + 1
  <2>1. ASSUME NEW i \in 1 .. l + 1, i # 1 PROVE i - 1 \in 1 .. l /\ i = (i - 1) + 1
    BY <2>1
  <2> QED BY <2>1
<1>5. x.start = a /\ x.end = e
  BY <1>1
<1>6. ASSUME NEW i \in 1 .. l + 1 PROVE b[i].start < b[i].end
  <2>1. CASE i = 1
    BY <2>1, <1>3, <1>5
  <2>2. CASE i # 1
    <3>1. PICK k \in 1 .. l : i = k + 1
      BY <2>2, <1>4
    <3> QED BY <3>1, <1>0, <1>3 DEF Tiling
  <2> QED BY <2>1, <2>2
<1>7. ASSUME NEW i \in 1 .. l PROVE b[i].end = b[i + 1].start
  <2>1. CASE i = 1
    <3>1. r # <<>> /\ r[1].start = e
      BY <1>0, <1>2 DEF Tiling
    <3> QED BY <2>1, <3>1, <1>3, <1>5
  <2>2. CASE i # 1
    <3>1. PICK k \in 1 .. l - 1 : i = k + 1
      <4>1. i - 1 \in 1 .. l - 1 /\ i = (i - 1) + 1
        BY <2>2
      <4> QED BY <4>1
    <3>2. b[i] = r[k] /\ b[i + 1] = r[k + 1] /\ k \in 1 .. l /\ k + 1 \in 1 .. l
      BY <3>1, <1>3
    <3>3. r[k].end = r[k + 1].start
      BY <3>1, <1>0 DEF Tiling
    <3> QED BY <3>2, <3>3
  <2> QED BY <2>1, <2>2
<1>8. b[l + 1].end = n
  <2>1. CASE l = 0
    <3>1. r = <<>>
      BY <2>1, <1>0, <1>2
    <3>2. e = n
      BY <3>1, <1>0 DEF Tiling
    <3> QED BY <2>1, <3>2, <1>3, <1>5
  <2>2. CASE l # 0
    <3>1. r # <<>> /\ l \in 1 .. l
      BY <2>2, <1>0
    <3>2. r[l].end = n
      BY <3>1, <1>0 DEF Tiling
    <3> QED BY <3>1, <3>2, <1>3
  <2> QED BY <2>1, <2>2
<1>9. Tiling(b, a, n)
  <2>1. b # <<>> /\ a # n
    BY <1>0, <1>3
  <2>2. Len(b) - 1 = l
    BY <1>3
  <2> QED BY <2>1, <2>2, <1>3, <1>5, <1>6, <1>7, <1>8 DEF Tiling
<1>10. ASSUME NEW i \in 1 .. l + 1
       PROVE  /\ b[i].start \in 0 .. n /\ b[i].end \in 0 .. n
              /\ Fits(c, s, b[i].start, b[i].end) /\ Broken(c, s, b[i].start, b[i].end)
  <2>1. CASE i = 1
    <3>1. b[i].start = a /\ b[i].end = e /\ a \in 0 .. n /\ e \in 0 .. n
      BY <2>1, <1>0, <1>3, <1>5
    <3> QED BY <3>1
  <2>2. CASE i # 1
    <3>1. PICK k \in 1 .. l : i = k + 1
      BY <2>2, <1>4
    <3>2. b[i] = r[k]
      BY <3>1, <1>3
    <3> QED BY <3>2, <1>0 DEF WellCut
  <2> QED BY <2>1, <2>2
<1>11. WellCut(c, s, b)
  BY <1>0, <1>3, <1>10 DEF WellCut
<1> QED BY <1>0, <1>9, <1>11

\* chunkCues: the blocks hold the cues once, keep to the limits and end well.
LEMMA CutTiles ==
    ASSUME NEW c \in Seq(Measure), NEW s, Valid(s)
    PROVE  Tiling(ChunkCues(c, s), 0, Len(c)) /\ WellCut(c, s, ChunkCues(c, s))
<1>0. PICK n \in Nat : n = Len(c)
  OBVIOUS
<1>1. PICK e : e = [k \in 0 .. n - 1 |-> BlockEnd(c, s, k)]
  OBVIOUS
<1>2. ASSUME NEW k \in 0 .. n - 1
      PROVE  /\ e[k] = BlockEnd(c, s, k) /\ e[k] \in k + 1 .. n
             /\ Fits(c, s, k, e[k]) /\ Broken(c, s, k, e[k])
  BY <1>0, <1>1, BlockEndFits
<1> DEFINE Step(f, k) == IF k = n THEN <<>> ELSE <<[start |-> k, end |-> e[k]]>> \o f[e[k]]
           T == {d \in 0 .. n : \E f : \A k \in n - d .. n : f[k] = Step(f, k)}
\* Such a function exists from n - d on, for every d.
<1>3. 0 \in T
  <2>1. PICK f : f = [k \in {n} |-> <<>>]
    OBVIOUS
  <2>2. \A k \in n - 0 .. n : f[k] = Step(f, k)
    BY <2>1
  <2>3. 0 \in 0 .. n
    OBVIOUS
  <2> QED BY <2>2, <2>3
<1>4. ASSUME NEW d \in 0 .. n - 1, d \in T PROVE d + 1 \in T
  <2>1. PICK f : \A k \in n - d .. n : f[k] = Step(f, k)
    BY <1>4
  <2>2. PICK a \in 0 .. n - 1 : a = n - (d + 1) /\ a + 1 = n - d
    <3>1. n - (d + 1) \in 0 .. n - 1 /\ (n - (d + 1)) + 1 = n - d
      OBVIOUS
    <3> QED BY <3>1
  <2>3. PICK g : g = [k \in a .. n |-> IF k = a THEN <<[start |-> a, end |-> e[a]]>> \o f[e[a]]
                                       ELSE f[k]]
    OBVIOUS
  <2>4. ASSUME NEW k \in a .. n PROVE g[k] = Step(g, k)
    <3>1. \A i \in a + 1 .. n : g[i] = f[i]
      BY <2>3
    <3>2. CASE k = a
      <4>1. e[a] \in a + 1 .. n
        BY <1>2
      <4>2. g[k] = <<[start |-> a, end |-> e[a]]>> \o f[e[a]]
        BY <2>3, <3>2
      <4>3. g[e[a]] = f[e[a]]
        BY <3>1, <4>1
      <4>4. k # n
        BY <3>2, <2>2
      <4> QED BY <3>2, <4>2, <4>3, <4>4
    <3>3. CASE k = n
      <4>1. k \in n - d .. n /\ k \in a + 1 .. n
        BY <3>3, <2>2
      <4>2. g[k] = f[k] /\ f[k] = Step(f, k)
        BY <4>1, <2>1, <3>1
      <4> QED BY <4>2, <3>3
    <3>4. CASE k # a /\ k # n
      <4>1. k \in n - d .. n /\ k \in a + 1 .. n /\ k \in 0 .. n - 1
        BY <3>4, <2>2
      <4>2. g[k] = f[k] /\ f[k] = Step(f, k)
        BY <4>1, <2>1, <3>1
      <4>3. e[k] \in a + 1 .. n
        BY <4>1, <1>2
      <4>4. g[e[k]] = f[e[k]]
        BY <4>3, <3>1
      <4> QED BY <4>2, <4>4, <3>4
    <3> QED BY <3>2, <3>3, <3>4
  <2>5. d + 1 \in 0 .. n /\ \A k \in n - (d + 1) .. n : g[k] = Step(g, k)
    BY <2>2, <2>4
  <2> QED BY <2>5
<1>5. PICK h : \A k \in 0 .. n : h[k] = Step(h, k)
  <2>1. PICK S : S = T
    OBVIOUS
  <2>2. 0 \in S /\ \A d \in 0 .. n - 1 : d \in S => d + 1 \in S
    BY <2>1, <1>3, <1>4
  <2>3. n \in 0 .. n
    OBVIOUS
  <2>4. n \in S
    BY <2>2, <2>3, UpTo
  <2>5. PICK f : \A k \in n - n .. n : f[k] = Step(f, k)
    BY <2>1, <2>4
  <2>6. n - n = 0
    OBVIOUS
  <2> QED BY <2>5, <2>6
\* So the one that is chosen does what it says.
<1> DEFINE F(f) == [start \in 0 .. Len(c) |->
                       IF start = Len(c) THEN <<>>
                       ELSE LET end == BlockEnd(c, s, start)
                            IN  <<[start |-> start, end |-> end]>> \o f[end]]
           from == CHOOSE f : f = F(f)
<1>6. ChunkCues(c, s) = from[0]
  BY Zenon DEF ChunkCues
<1>7. \E f : f = F(f)
  <2>1. PICK g : g = [k \in 0 .. n |-> h[k]]
    OBVIOUS
  <2>2. ASSUME NEW k \in 0 .. n
        PROVE  g[k] = IF k = Len(c) THEN <<>>
                      ELSE LET end == BlockEnd(c, s, k) IN <<[start |-> k, end |-> end]>> \o g[end]
    <3>1. CASE k = n
      BY <3>1, <2>1, <1>0, <1>5
    <3>2. CASE k # n
      <4>1. k \in 0 .. n - 1
        BY <3>2
      <4>2. e[k] = BlockEnd(c, s, k) /\ e[k] \in 0 .. n
        BY <4>1, <1>2
      <4>3. g[k] = h[k] /\ g[e[k]] = h[e[k]]
        BY <4>2, <2>1
      <4>4. h[k] = <<[start |-> k, end |-> e[k]]>> \o h[e[k]]
        BY <3>2, <1>5
      <4> QED BY <3>2, <4>2, <4>3, <4>4, <1>0
    <3> QED BY <3>1, <3>2
  <2>3. F(g) = [k \in 0 .. n |-> g[k]]
    BY <2>2, <1>0
  <2>4. g = F(g)
    BY <2>1, <2>3
  <2> QED BY <2>4
<1>8. from = F(from)
  BY <1>7, Zenon
<1>9. PICK f : f = from
  OBVIOUS
<1> HIDE DEF from
<1>10. ASSUME NEW k \in 0 .. n PROVE f[k] = Step(f, k)
  <2>1. f = F(f)
    BY <1>8, <1>9
  <2>2. CASE k = n
    BY <2>1, <2>2, <1>0
  <2>3. CASE k # n
    <3>1. k \in 0 .. n - 1 /\ k # Len(c) /\ k \in 0 .. Len(c)
      BY <2>3, <1>0
    <3>2. f[k] = <<[start |-> k, end |-> BlockEnd(c, s, k)]>> \o f[BlockEnd(c, s, k)]
      BY <2>1, <3>1
    <3>3. e[k] = BlockEnd(c, s, k)
      BY <3>1, <1>2
    <3> QED BY <2>3, <3>2, <3>3
  <2> QED BY <2>2, <2>3
\* From the end on, all that is cut is cut well.
<1> DEFINE Good(k) == Tiling(f[k], k, n) /\ WellCut(c, s, f[k])
           G == {d \in 0 .. n : \A k \in n - d .. n : Good(k)}
<1>11. 0 \in G
  <2>1. f[n] = <<>> /\ 0 \in 0 .. n
    <3>1. n \in 0 .. n /\ 0 \in 0 .. n
      OBVIOUS
    <3> QED BY <3>1, <1>10
  <2>2. Good(n)
    BY <2>1 DEF Tiling, WellCut
  <2>3. \A k \in n - 0 .. n : k = n
    OBVIOUS
  <2> QED BY <2>1, <2>2, <2>3
<1>12. ASSUME NEW d \in 0 .. n - 1, d \in G PROVE d + 1 \in G
  <2>1. PICK a \in 0 .. n - 1 : a = n - (d + 1) /\ a + 1 = n - d
    <3>1. n - (d + 1) \in 0 .. n - 1 /\ (n - (d + 1)) + 1 = n - d
      OBVIOUS
    <3> QED BY <3>1
  <2>2. e[a] \in a + 1 .. n /\ Fits(c, s, a, e[a]) /\ Broken(c, s, a, e[a])
    BY <1>2
  <2>3. Good(e[a])
    <3>1. e[a] \in n - d .. n
      BY <2>1, <2>2
    <3> QED BY <3>1, <1>12
  <2>4. f[a] = <<[start |-> a, end |-> e[a]]>> \o f[e[a]]
    <3>1. a \in 0 .. n /\ a # n
      OBVIOUS
    <3> QED BY <3>1, <1>10
  <2>5. a \in 0 .. Len(c) /\ e[a] \in a + 1 .. Len(c)
    BY <1>0, <2>2
  <2>6. Tiling(f[e[a]], e[a], Len(c)) /\ WellCut(c, s, f[e[a]])
    BY <2>3, <1>0
  <2>7. Tiling(f[a], a, Len(c)) /\ WellCut(c, s, f[a])
    BY <2>2, <2>4, <2>5, <2>6, OneMore
  <2>8. Good(a)
    BY <2>7, <1>0
  <2>9. \A k \in n - (d + 1) .. n : k = a \/ k \in n - d .. n
    BY <2>1
  <2>10. d + 1 \in 0 .. n
    OBVIOUS
  <2> QED BY <2>8, <2>9, <2>10, <1>12
<1>13. Good(0)
  <2>1. PICK S : S = G
    OBVIOUS
  <2>2. 0 \in S /\ \A d \in 0 .. n - 1 : d \in S => d + 1 \in S
    BY <2>1, <1>11, <1>12
  <2>3. n \in 0 .. n /\ 0 \in n - n .. n
    OBVIOUS
  <2>4. n \in S
    BY <2>2, <2>3, UpTo
  <2> QED BY <2>1, <2>3, <2>4
<1> QED BY <1>0, <1>6, <1>9, <1>13

-----------------------------------------------------------------------------
(* Lists of blocks.                                                        *)

\* How far the first k blocks of b reach.
Reach(b, k) == IF k = 0 THEN 0 ELSE b[k].end

\* Each block reaches farther than those before it.
LEMMA EndsGrow ==
    ASSUME NEW a \in Nat, NEW n \in Nat, NEW b, Tiling(b, a, n),
           NEW i \in 1 .. Len(b), NEW k \in i .. Len(b)
    PROVE  /\ b[i] \in Block /\ a < b[i].end /\ b[i].end <= b[k].end
           /\ i # k => b[i].end < b[k].end
<1>0. PICK l \in Nat : l = Len(b)
  BY DEF Tiling
<1>1. \A j \in 1 .. l : b[j] \in Block
  BY <1>0 DEF Tiling
<1>2. ASSUME NEW x \in 1 .. l, NEW y \in x .. l
      PROVE  b[x].end <= b[y].end /\ (x # y => b[x].end < b[y].end)
  <2> DEFINE T == {d \in 0 .. l - x : b[x].end <= b[x + d].end /\ (d # 0 => b[x].end < b[x + d].end)}
  <2>1. 0 \in T
    <3>1. b[x].end \in Nat /\ x + 0 = x /\ 0 \in 0 .. l - x
      BY <1>1 DEF Block
    <3> QED BY <3>1
  <2>2. ASSUME NEW d \in 0 .. (l - x) - 1, d \in T PROVE d + 1 \in T
    <3>1. PICK j \in 1 .. l - 1 : j = x + d /\ j + 1 = x + (d + 1)
      <4>1. x + d \in 1 .. l - 1 /\ (x + d) + 1 = x + (d + 1)
        OBVIOUS
      <4> QED BY <4>1
    <3>2. j \in 1 .. l /\ j + 1 \in 1 .. l
      OBVIOUS
    <3>3. b[j].end = b[j + 1].start /\ b[j + 1].start < b[j + 1].end
      BY <3>2, <1>0 DEF Tiling
    <3>4. b[x].end \in Nat /\ b[j].end \in Nat /\ b[j + 1].start \in Nat /\ b[j + 1].end \in Nat
      BY <3>2, <1>1 DEF Block
    <3>5. b[x].end <= b[j].end
      BY <2>2, <3>1
    <3>6. b[x].end < b[j + 1].end
      BY <3>3, <3>4, <3>5, SMTT(20)
    <3>7. b[x].end <= b[j + 1].end
      BY <3>4, <3>6, SMTT(20)
    <3>8. d + 1 \in 0 .. l - x
      OBVIOUS
    <3> QED BY <3>1, <3>6, <3>7, <3>8
  <2>3. y - x \in T
    <3>1. PICK S : S = T
      OBVIOUS
    <3>2. 0 \in S /\ \A d \in 0 .. (l - x) - 1 : d \in S => d + 1 \in S
      BY <3>1, <2>1, <2>2
    <3>3. l - x \in Nat /\ y - x \in 0 .. l - x
      OBVIOUS
    <3>4. y - x \in S
      BY <3>2, <3>3, UpTo
    <3> QED BY <3>1, <3>4
  <2>4. x + (y - x) = y /\ (x # y => y - x # 0)
    OBVIOUS
  <2> QED BY <2>3, <2>4
<1>3. a < b[i].end
  <2>1. b # <<>> /\ 1 \in 1 .. l /\ i \in 1 .. l
    BY <1>0
  <2>2. b[1].start = a /\ b[1].start < b[1].end
    BY <2>1, <1>0 DEF Tiling
  <2>3. b[1].end <= b[i].end
    <3>1. i \in 1 .. l
      BY <1>0
    <3> QED BY <2>1, <3>1, <1>2
  <2>4. b[1].end \in Nat /\ b[i].end \in Nat
    BY <2>1, <1>1 DEF Block
  <2> QED BY <2>2, <2>3, <2>4
<1>4. i \in 1 .. l /\ k \in i .. l
  BY <1>0
<1> QED BY <1>1, <1>2, <1>3, <1>4

\* Two lists that meet make one.
LEMMA Joined ==
    ASSUME NEW x \in Nat, NEW y \in Nat, NEW z \in Nat, x <= y, y <= z,
           NEW p, Tiling(p, x, y), NEW q, Tiling(q, y, z)
    PROVE  Tiling(p \o q, x, z)
<1>0. PICK l \in Nat, m \in Nat : l = Len(p) /\ m = Len(q)
  BY DEF Tiling
<1>1. PICK b : b = p \o q
  OBVIOUS
<1>2. p \in Seq(Block) /\ q \in Seq(Block)
  BY DEF Tiling
<1>3. /\ b \in Seq(Block) /\ Len(b) = l + m
      /\ \A i \in 1 .. l : b[i] = p[i]
      /\ \A i \in 1 .. m : b[l + i] = q[i]
  BY <1>0, <1>1, <1>2
<1>4. \A i \in 1 .. l + m : i \in 1 .. l \/ \E k \in 1 .. m : i = l + k
  <2>1. ASSUME NEW i \in 1 .. l + m, i \notin 1 .. l PROVE i - l \in 1 .. m /\ i = l + (i - l)
    BY <2>1
  <2> QED BY <2>1
<1>5. (l = 0 <=> x = y) /\ (m = 0 <=> y = z) /\ (l = 0 <=> p = <<>>) /\ (m = 0 <=> q = <<>>)
  <2>1. (l = 0 <=> p = <<>>) /\ (m = 0 <=> q = <<>>)
    BY <1>0, <1>2
  <2> QED BY <2>1 DEF Tiling
<1>6. b = <<>> <=> x = z
  <2>1. b = <<>> <=> l + m = 0
    BY <1>3
  <2> QED BY <2>1, <1>5
<1>7. ASSUME b # <<>> PROVE b[1].start = x /\ b[l + m].end = z
  <2>1. CASE l # 0 /\ m # 0
    <3>1. p[1].start = x /\ q[m].end = z
      BY <2>1, <1>0, <1>5 DEF Tiling
    <3>2. 1 \in 1 .. l /\ m \in 1 .. m
      BY <2>1
    <3> QED BY <3>1, <3>2, <1>3
  <2>2. CASE l = 0 /\ m # 0
    <3>1. q[1].start = x /\ q[m].end = z
      BY <2>2, <1>0, <1>5 DEF Tiling
    <3>2. 1 \in 1 .. m /\ m \in 1 .. m /\ l + 1 = 1 /\ l + m = m
      BY <2>2
    <3> QED BY <3>1, <3>2, <1>3
  <2>3. CASE l # 0 /\ m = 0
    <3>1. p[1].start = x /\ p[l].end = z
      BY <2>3, <1>0, <1>5 DEF Tiling
    <3>2. 1 \in 1 .. l /\ l \in 1 .. l /\ l + m = l
      BY <2>3
    <3> QED BY <3>1, <3>2, <1>3
  <2>4. ~(l = 0 /\ m = 0)
    BY <1>7, <1>3
  <2> QED BY <2>1, <2>2, <2>3, <2>4
<1>8. ASSUME NEW i \in 1 .. l + m PROVE b[i].start < b[i].end
  <2>1. CASE i \in 1 .. l
    BY <2>1, <1>0, <1>3 DEF Tiling
  <2>2. CASE \E k \in 1 .. m : i = l + k
    BY <2>2, <1>0, <1>3 DEF Tiling
  <2> QED BY <2>1, <2>2, <1>4
<1>9. ASSUME NEW i \in 1 .. (l + m) - 1 PROVE b[i].end = b[i + 1].start
  <2>1. CASE i < l
    <3>1. i \in 1 .. l - 1 /\ i \in 1 .. l /\ i + 1 \in 1 .. l
      BY <2>1
    <3>2. p[i].end = p[i + 1].start
      BY <3>1, <1>0 DEF Tiling
    <3> QED BY <3>1, <3>2, <1>3
  <2>2. CASE i = l
    <3>1. l # 0 /\ m # 0 /\ l \in 1 .. l /\ 1 \in 1 .. m
      BY <2>2
    <3>2. p[l].end = y /\ q[1].start = y
      BY <3>1, <1>0, <1>5 DEF Tiling
    <3>3. b[i] = p[l] /\ b[i + 1] = q[1]
      BY <2>2, <3>1, <1>3
    <3> QED BY <3>2, <3>3
  <2>3. CASE l < i
    <3>1. PICK k \in 1 .. m - 1 : i = l + k /\ i + 1 = l + (k + 1)
      <4>1. i - l \in 1 .. m - 1 /\ i = l + (i - l) /\ i + 1 = l + ((i - l) + 1)
        BY <2>3
      <4> QED BY <4>1
    <3>2. q[k].end = q[k + 1].start
      BY <3>1, <1>0 DEF Tiling
    <3>3. k \in 1 .. m /\ k + 1 \in 1 .. m
      OBVIOUS
    <3>4. b[i] = q[k] /\ b[i + 1] = q[k + 1]
      BY <3>1, <3>3, <1>3
    <3> QED BY <3>2, <3>4
  <2> QED BY <2>1, <2>2, <2>3
<1>10. Tiling(b, x, z)
  BY <1>3, <1>6, <1>7, <1>8, <1>9 DEF Tiling
<1> QED BY <1>1, <1>10

\* The first blocks of a list, and the others.
LEMMA Parted ==
    ASSUME NEW n \in Nat, NEW b, Tiling(b, 0, n), NEW k \in 0 .. Len(b)
    PROVE  /\ Reach(b, k) \in 0 .. n
           /\ Tiling(SubSeq(b, 1, k), 0, Reach(b, k))
           /\ Tiling(SubSeq(b, k + 1, Len(b)), Reach(b, k), n)
           /\ k < Len(b) => b[k + 1].start = Reach(b, k)
<1>0. PICK l \in Nat : l = Len(b)
  BY DEF Tiling
<1>1. b \in Seq(Block) /\ \A i \in 1 .. l : b[i] \in Block
  BY <1>0 DEF Tiling
<1>2. PICK r : r = Reach(b, k)
  OBVIOUS
<1>3. r \in Nat /\ (k = 0 <=> r = 0) /\ r <= n /\ (k = l <=> r = n)
  <2>1. CASE k = 0
    <3>1. r = 0 /\ (b = <<>> <=> 0 = n) /\ (l = 0 <=> b = <<>>)
      BY <2>1, <1>0, <1>1, <1>2 DEF Reach, Tiling
    <3> QED BY <2>1, <3>1
  <2>2. CASE k # 0
    <3>1. k \in 1 .. l /\ l \in 1 .. l /\ l \in k .. l /\ b # <<>>
      BY <2>2, <1>0, <1>1
    <3>2. r = b[k].end /\ b[l].end = n
      BY <2>2, <3>1, <1>0, <1>2 DEF Reach, Tiling
    <3>3. /\ b[k] \in Block /\ 0 < b[k].end /\ b[k].end <= b[l].end
          /\ k # l => b[k].end < b[l].end
      BY <3>1, <1>0, EndsGrow
    <3>4. b[k].end \in Nat
      BY <3>3 DEF Block
    <3> QED BY <2>2, <3>2, <3>3, <3>4
  <2> QED BY <2>1, <2>2
<1>4. Tiling(SubSeq(b, 1, k), 0, r)
  <2>1. PICK p : p = SubSeq(b, 1, k)
    OBVIOUS
  <2>2. p \in Seq(Block) /\ Len(p) = k /\ \A i \in 1 .. k : p[i] = b[i]
    BY <2>1, <1>0, <1>1
  <2>3. p = <<>> <=> k = 0
    BY <2>2
  <2>4. ASSUME k # 0 PROVE p[1].start = 0 /\ p[k].end = r
    <3>1. b # <<>> /\ 1 \in 1 .. k /\ k \in 1 .. k
      BY <2>4, <1>0, <1>1
    <3>2. b[1].start = 0
      BY <3>1 DEF Tiling
    <3> QED BY <3>1, <3>2, <2>2, <2>4, <1>2 DEF Reach
  <2>5. \A i \in 1 .. k : p[i].start < p[i].end
    BY <2>2, <1>0 DEF Tiling
  <2>6. ASSUME NEW i \in 1 .. k - 1 PROVE p[i].end = p[i + 1].start
    <3>1. i \in 1 .. l - 1 /\ i \in 1 .. k /\ i + 1 \in 1 .. k
      BY <1>0
    <3> QED BY <3>1, <2>2, <1>0 DEF Tiling
  <2>7. Tiling(p, 0, r)
    BY <2>2, <2>3, <2>4, <2>5, <2>6, <1>3 DEF Tiling
  <2> QED BY <2>1, <2>7
<1>5. k < l => b[k + 1].start = r
  <2> SUFFICES ASSUME k < l PROVE b[k + 1].start = r
    OBVIOUS
  <2>1. CASE k = 0
    <3>1. b # <<>>
      BY <1>0, <1>1
    <3>2. b[1].start = 0 /\ k + 1 = 1
      BY <3>1, <2>1 DEF Tiling
    <3> QED BY <2>1, <3>2, <1>2 DEF Reach
  <2>2. CASE k # 0
    <3>1. k \in 1 .. l - 1
      BY <2>2, <1>0
    <3>2. b[k].end = b[k + 1].start
      BY <3>1, <1>0 DEF Tiling
    <3> QED BY <2>2, <3>2, <1>2 DEF Reach
  <2> QED BY <2>1, <2>2
<1>6. Tiling(SubSeq(b, k + 1, l), r, n)
  <2>0. PICK m \in Nat : k + m = l
    <3>1. l - k \in Nat /\ k + (l - k) = l
      BY <1>0
    <3> QED BY <3>1
  <2>1. PICK q : q = SubSeq(b, k + 1, l)
    OBVIOUS
  <2>2. q \in Seq(Block) /\ Len(q) = m /\ \A i \in 1 .. m : q[i] = b[k + i]
    <3>1. PICK x \in 1 .. l + 1 : x = k + 1
      BY <1>0
    <3>2. l - x + 1 = m /\ \A i \in 1 .. m : x + i - 1 = k + i /\ k + i \in 1 .. l
      BY <3>1, <2>0
    <3> QED BY <3>1, <3>2, <2>1, <1>0, <1>1
  <2>3. q = <<>> <=> r = n
    <3>1. (q = <<>> <=> m = 0) /\ (m = 0 <=> k = l)
      BY <2>0, <2>2
    <3> QED BY <3>1, <1>3
  <2>4. ASSUME q # <<>> PROVE q[1].start = r /\ q[m].end = n
    <3>1. m # 0 /\ 1 \in 1 .. m /\ m \in 1 .. m /\ k < l /\ k + m = l /\ b # <<>>
      BY <2>4, <2>0, <2>2, <1>0, <1>1
    <3>2. q[1] = b[k + 1] /\ q[m] = b[l]
      BY <3>1, <2>2
    <3>3. b[l].end = n
      BY <3>1, <1>0 DEF Tiling
    <3> QED BY <3>1, <3>2, <3>3, <1>5
  <2>5. ASSUME NEW i \in 1 .. m PROVE q[i].start < q[i].end
    <3>1. k + i \in 1 .. l
      BY <2>0
    <3> QED BY <3>1, <2>2, <1>0 DEF Tiling
  <2>6. ASSUME NEW i \in 1 .. m - 1 PROVE q[i].end = q[i + 1].start
    <3>1. PICK j \in 1 .. l - 1 : j = k + i /\ j + 1 = k + (i + 1)
      <4>1. k + i \in 1 .. l - 1 /\ (k + i) + 1 = k + (i + 1)
        BY <2>0
      <4> QED BY <4>1
    <3>2. b[j].end = b[j + 1].start
      BY <3>1, <1>0 DEF Tiling
    <3>3. i \in 1 .. m /\ i + 1 \in 1 .. m
      OBVIOUS
    <3> QED BY <3>1, <3>2, <3>3, <2>2
  <2>7. Tiling(q, r, n)
    BY <2>2, <2>3, <2>4, <2>5, <2>6 DEF Tiling
  <2> QED BY <2>1, <2>7
<1> QED BY <1>0, <1>2, <1>3, <1>4, <1>5, <1>6

-----------------------------------------------------------------------------
(* Lines and what is left of them.                                         *)

Text == Seq(Lines(Word))
\* The lines a block may have, and a block.
Solid == {x \in Lines(Word) : x.kind # "blank"}
Piece == Seq(Solid) \ {<<>>}
\* A line with nothing around it that trimSpace takes for white space, and a text that
\* begins with such a line and ends with something.
Neat == {x \in Lines(Word) : ~Empty(x) /\ x.margin # "wide"}
Tidy(t) == t \in Piece /\ t[1] \in Neat /\ ~Empty(t[Len(t)])
\* A text that begins and ends with something.
Bounded(t) == ~White(t[1]) /\ t[1].margin = "none" /\ ~White(t[Len(t)])
Trimmed == {t \in Piece : Bounded(t)}

\* The three kinds of lines.
Said == [kind : {"blank", "wide", "mark", "webvtt", "note", "number", "name"}, word : Nat,
         margin : Margin]
Spoken == [kind : {"words"}, word : Word, margin : Margin]
StampOf == [hours : Nat, minutes : Nat, seconds : Nat, ms : 0 .. 999,
            mark : {"comma", "point"}, short : BOOLEAN]
Timed == [kind : {"timing"}, start : StampOf, end : StampOf, settings : Seq(STRING),
          margin : Margin]

LEMMA LineKinds == Lines(Word) = Said \cup Spoken \cup Timed
BY DEF Lines, Said, Spoken, Timed, StampOf

\* A line without the white space before it is a line.
LEMMA FlushLine ==
    ASSUME NEW line \in Lines(Word)
    PROVE  /\ Flush(line) \in Lines(Word) /\ Flush(line).kind = line.kind
           /\ Flush(line).margin = "none"
           /\ line.margin = "none" => Flush(line) = line
<1>1. CASE line \in Said
  <2>1. Flush(line) \in Said /\ Flush(line).kind = line.kind /\ Flush(line).margin = "none"
    BY <1>1 DEF Flush, Said, Margin
  <2>2. ASSUME line.margin = "none" PROVE Flush(line) = line
    BY <1>1, <2>2 DEF Flush, Said
  <2> QED BY <2>1, <2>2, LineKinds
<1>2. CASE line \in Spoken
  <2>1. Flush(line) \in Spoken /\ Flush(line).kind = line.kind /\ Flush(line).margin = "none"
    BY <1>2 DEF Flush, Spoken, Margin
  <2>2. ASSUME line.margin = "none" PROVE Flush(line) = line
    BY <1>2, <2>2 DEF Flush, Spoken
  <2> QED BY <2>1, <2>2, LineKinds
<1>3. CASE line \in Timed
  <2>1. Flush(line) \in Timed /\ Flush(line).kind = line.kind /\ Flush(line).margin = "none"
    BY <1>3 DEF Flush, Timed, Margin
  <2>2. ASSUME line.margin = "none" PROVE Flush(line) = line
    BY <1>3, <2>2 DEF Flush, Timed
  <2> QED BY <2>1, <2>2, LineKinds
<1> QED BY <1>1, <1>2, <1>3, LineKinds

\* A line without the white space that trimSpace takes from before it.
LEMMA TrimSpaceLine ==
    ASSUME NEW line \in Lines(Word)
    PROVE  /\ TrimSpace(line) \in Lines(Word) /\ TrimSpace(line).kind = line.kind
           /\ TrimSpace(line).margin # "wide"
           /\ line.margin # "wide" => TrimSpace(line) = line
<1>1. CASE line.margin = "wide"
  BY <1>1, FlushLine DEF TrimSpace
<1>2. CASE line.margin # "wide"
  BY <1>2 DEF TrimSpace
<1> QED BY <1>1, <1>2

\* What is neat is solid, what is solid is a line, and so it is with texts.
LEMMA Solids ==
    /\ Neat \subseteq Solid /\ Solid \subseteq Lines(Word)
    /\ Seq(Neat) \subseteq Seq(Solid) /\ Seq(Solid) \subseteq Text
    /\ \A x \in Solid : Flush(x) \in Solid
<1>1. Neat \subseteq Solid /\ Solid \subseteq Lines(Word)
  BY DEF Neat, Solid, Empty
<1>2. Seq(Neat) \subseteq Seq(Solid)
  <2>1. \A s \in Seq(Neat) : s \in Seq(Solid)
    BY <1>1, SeqMonotonic
  <2> QED BY <2>1
<1>3. Seq(Solid) \subseteq Text
  <2>1. \A s \in Seq(Solid) : s \in Seq(Lines(Word))
    BY <1>1, SeqMonotonic
  <2> QED BY <2>1 DEF Text
<1>4. \A x \in Solid : Flush(x) \in Solid
  <2>1. ASSUME NEW x \in Solid PROVE Flush(x) \in Lines(Word) /\ Flush(x).kind # "blank"
    <3>1. x \in Lines(Word) /\ x.kind # "blank"
      BY DEF Solid
    <3> QED BY <3>1, FlushLine
  <2> QED BY <2>1 DEF Solid
<1> QED BY <1>1, <1>2, <1>3, <1>4

\* What is left of a text without the white space around it: some of its lines,
\* from the first to the last that says something.
LEMMA TrimParts ==
    ASSUME NEW S \in SUBSET Lines(Word), \A x \in S : Flush(x) \in S,
           NEW lines \in Seq(S), \E i \in 1 .. Len(lines) : ~White(lines[i])
    PROVE  \E c, d \in 1 .. Len(lines) :
              /\ c <= d /\ ~White(lines[c]) /\ ~White(lines[d])
              /\ \A i \in 1 .. Len(lines) : ~White(lines[i]) => i \in c .. d
              /\ Trim(lines) \in Seq(S) /\ Len(Trim(lines)) = d - c + 1
              /\ Trim(lines)[1] = Flush(lines[c])
              /\ \A k \in 2 .. d - c + 1 : Trim(lines)[k] = lines[c + k - 1]
<1>0. PICK n \in Nat : n = Len(lines) /\ DOMAIN lines = 1 .. n
  OBVIOUS
<1>1. PICK said : said = {i \in DOMAIN lines : ~White(lines[i])}
  OBVIOUS
<1>2. /\ said \in SUBSET Nat /\ said \subseteq 1 .. n /\ said # {}
      /\ \A i \in 1 .. n : ~White(lines[i]) <=> i \in said
  BY <1>0, <1>1
<1>3. PICK a \in said : \A k \in said : a <= k
  BY <1>2, LeastNumber
<1>4. PICK b \in said : \A k \in said : k <= b
  <2>1. PICK f : f = [k \in said |-> k]
    OBVIOUS
  <2>2. f \in [said -> Int] /\ said \in SUBSET (0 .. n)
    BY <1>2, <2>1
  <2>3. PICK i \in said : \A k \in said \ {i} : IF k < i THEN f[k] < f[i] ELSE f[k] <= f[i]
    BY <1>2, <2>2, First
  <2>4. \A k \in said : k <= i
    BY <2>1, <2>3, <1>2
  <2> QED BY <2>4
<1>5. Min(said) \in said /\ \A y \in said : Min(said) <= y
  <2>1. \E x \in said : \A y \in said : x <= y
    BY <1>3
  <2> QED BY <2>1 DEF Min
<1>6. Max(said) \in said /\ \A y \in said : Max(said) >= y
  <2>1. \E x \in said : \A y \in said : x >= y
    BY <1>2, <1>4
  <2> QED BY <2>1 DEF Max
<1>16. PICK c \in 1 .. n, d \in 1 .. n :
         /\ c = Min(said) /\ d = Max(said) /\ c <= d /\ ~White(lines[c]) /\ ~White(lines[d])
         /\ \A i \in 1 .. n : ~White(lines[i]) => i \in c .. d
  <2>1. PICK c \in 1 .. n : c = Min(said) /\ c \in said /\ \A y \in said : c <= y
    BY <1>2, <1>5
  <2>2. PICK d \in 1 .. n : d = Max(said) /\ d \in said /\ \A y \in said : d >= y
    BY <1>2, <1>6
  <2>3. c <= d /\ ~White(lines[c]) /\ ~White(lines[d])
    BY <1>2, <2>1, <2>2
  <2>4. \A i \in 1 .. n : i \in said => i \in c .. d
    BY <2>1, <2>2
  <2> QED BY <1>2, <2>1, <2>2, <2>3, <2>4
<1>7. PICK m \in Seq(S) : /\ m = SubSeq(lines, c, d) /\ Len(m) = d - c + 1
                          /\ \A k \in 1 .. d - c + 1 : m[k] = lines[c + k - 1]
  <2>1. \A i \in c .. d : lines[i] \in S
    BY <1>0
  <2>2. c \in Int /\ d \in Int
    OBVIOUS
  <2>3. /\ SubSeq(lines, c, d) \in Seq(S)
        /\ Len(SubSeq(lines, c, d)) = IF c <= d THEN d - c + 1 ELSE 0
        /\ \A k \in 1 .. d - c + 1 : SubSeq(lines, c, d)[k] = lines[c + k - 1]
    BY <2>1, <2>2, SubSeqProperties
  <2> QED BY <1>16, <2>3
<1>8. m # <<>> /\ m[1] = lines[c] /\ m[1] \in S
  BY <1>16, <1>7, SMTT(20)
<1>9. PICK x \in S : x = Flush(m[1])
  BY <1>8
<1>10. PICK r \in Seq(S) : /\ r = Tail(m) /\ Len(r) = d - c
                           /\ \A k \in 1 .. d - c : r[k] = m[k + 1]
  <2>1. /\ Tail(m) \in Seq(S) /\ Len(Tail(m)) = Len(m) - 1
        /\ \A k \in 1 .. Len(Tail(m)) : Tail(m)[k] = m[k + 1]
    BY <1>8, HeadTailProperties
  <2>2. Len(Tail(m)) = d - c
    BY <1>7, <1>16, <2>1
  <2> QED BY <2>1, <2>2
<1>11. Trim(lines) = <<x>> \o r
  BY <1>1, <1>2, <1>16, <1>7, <1>9, <1>10 DEF Trim
<1>12. PICK one \in Seq(S) : one = <<x>> /\ Len(one) = 1 /\ one[1] = x
  <2>1. <<x>> \in Seq(S) /\ Len(<<x>>) = 1 /\ <<x>>[1] = x
    OBVIOUS
  <2> QED BY <2>1
<1>13. PICK w \in Seq(S) :
          /\ w = one \o r /\ Len(w) = d - c + 1 /\ w[1] = x
          /\ \A k \in 2 .. d - c + 1 : w[k] = r[k - 1]
  <2>1. /\ one \o r \in Seq(S) /\ Len(one \o r) = 1 + (d - c)
        /\ \A i \in 1 .. 1 + (d - c) : (one \o r)[i] = IF i <= 1 THEN one[i] ELSE r[i - 1]
    BY <1>10, <1>12, ConcatProperties
  <2>2. PICK v \in Seq(S) : v = one \o r
    BY <2>1
  <2>3. Len(v) = d - c + 1 /\ v[1] = x
    BY <2>1, <2>2, <1>16, <1>12
  <2>4. ASSUME NEW k \in 2 .. d - c + 1 PROVE v[k] = r[k - 1]
    <3>1. k \in 1 .. 1 + (d - c) /\ ~(k <= 1)
      OBVIOUS
    <3> QED BY <2>1, <2>2, <3>1
  <2> QED BY <2>2, <2>3, <2>4
<1>14. \A k \in 2 .. d - c + 1 : w[k] = lines[c + k - 1]
  <2>1. ASSUME NEW k \in 2 .. d - c + 1 PROVE w[k] = lines[c + k - 1]
    <3>1. k - 1 \in 1 .. d - c /\ (k - 1) + 1 = k /\ k \in 1 .. d - c + 1
      OBVIOUS
    <3>2. r[k - 1] = m[k]
      BY <1>10, <3>1
    <3> QED BY <1>7, <1>13, <3>1, <3>2
  <2> QED BY <2>1
<1>15. /\ Trim(lines) \in Seq(S) /\ Len(Trim(lines)) = d - c + 1
       /\ Trim(lines)[1] = Flush(lines[c])
       /\ \A k \in 2 .. d - c + 1 : Trim(lines)[k] = lines[c + k - 1]
  BY <1>8, <1>9, <1>11, <1>12, <1>13, <1>14
<1> QED BY <1>0, <1>16, <1>15

\* White space alone is nothing.
LEMMA TrimNothing ==
    ASSUME NEW S, NEW lines \in Seq(S), \A i \in 1 .. Len(lines) : White(lines[i])
    PROVE  Trim(lines) = <<>>
<1>1. {i \in DOMAIN lines : ~White(lines[i])} = {}
  OBVIOUS
<1> QED BY <1>1 DEF Trim

\* White space around a text is no part of it, and nothing is if it is all there is.
LEMMA TrimKeeps ==
    ASSUME NEW S \in SUBSET Lines(Word), \A x \in S : Flush(x) \in S, NEW lines \in Seq(S)
    PROVE  /\ Trim(lines) \in Seq(S) /\ Len(Trim(lines)) <= Len(lines)
           /\ Trim(lines) # <<>> => Bounded(Trim(lines))
<1>0. PICK n \in Nat : n = Len(lines)
  OBVIOUS
<1>1. CASE \A i \in 1 .. n : White(lines[i])
  <2>1. Trim(lines) = <<>>
    BY <1>0, <1>1, TrimNothing
  <2> QED BY <2>1, <1>0, EmptySeq
<1>2. CASE ~\A i \in 1 .. n : White(lines[i])
  <2>1. PICK c \in 1 .. n, d \in 1 .. n :
           /\ c <= d /\ ~White(lines[c]) /\ ~White(lines[d])
           /\ Trim(lines) \in Seq(S) /\ Len(Trim(lines)) = d - c + 1
           /\ Trim(lines)[1] = Flush(lines[c])
           /\ \A k \in 2 .. d - c + 1 : Trim(lines)[k] = lines[c + k - 1]
    BY <1>0, <1>2, TrimParts
  <2>2. PICK w \in Seq(S) : w = Trim(lines)
    BY <2>1
  <2>3. Len(w) = d - c + 1 /\ w[1] = Flush(lines[c])
        /\ \A k \in 2 .. d - c + 1 : w[k] = lines[c + k - 1]
    BY <2>1, <2>2
  <2>4. lines[c] \in Lines(Word)
    BY <1>0
  <2>5. ~White(w[1]) /\ w[1].margin = "none"
    BY <2>1, <2>3, <2>4, FlushLine DEF White
  <2>6. ~White(w[Len(w)])
    <3>1. CASE d = c
      BY <2>3, <2>5, <3>1
    <3>2. CASE d # c
      <4>1. Len(w) \in 2 .. d - c + 1 /\ c + Len(w) - 1 = d
        BY <2>1, <2>3, <3>2
      <4> QED BY <2>1, <2>3, <4>1
    <3> QED BY <3>1, <3>2
  <2>7. Len(w) <= n
    BY <2>3, <2>1
  <2> QED BY <1>0, <2>2, <2>5, <2>6, <2>7 DEF Bounded
<1> QED BY <1>1, <1>2

\* What begins and ends with something is left, without white space after it.
LEMMA TrimEnds ==
    ASSUME NEW S \in SUBSET Lines(Word), \A x \in S : Flush(x) \in S, NEW lines \in Seq(S),
           NEW t \in Seq(S), t # <<>>, Bounded(t), Len(t) <= Len(lines),
           \A i \in 1 .. Len(t) : lines[i] = t[i],
           \A i \in Len(t) + 1 .. Len(lines) : White(lines[i])
    PROVE  Trim(lines) = t
<1>0. PICK n \in Nat, m \in Nat \ {0} : n = Len(lines) /\ m = Len(t) /\ m <= n
  OBVIOUS
<1>1. ~White(lines[1]) /\ ~White(lines[m]) /\ lines[1] = t[1] /\ lines[m] = t[m]
  BY <1>0 DEF Bounded
<1>2. PICK c \in 1 .. n, d \in 1 .. n :
         /\ c <= d /\ ~White(lines[c]) /\ ~White(lines[d])
         /\ \A i \in 1 .. n : ~White(lines[i]) => i \in c .. d
         /\ Trim(lines) \in Seq(S) /\ Len(Trim(lines)) = d - c + 1
         /\ Trim(lines)[1] = Flush(lines[c])
         /\ \A k \in 2 .. d - c + 1 : Trim(lines)[k] = lines[c + k - 1]
  <2>1. 1 \in 1 .. n
    BY <1>0
  <2>2. \E i \in 1 .. Len(lines) : ~White(lines[i])
    BY <1>0, <2>1, <1>1
  <2>3. \E c, d \in 1 .. Len(lines) :
           /\ c <= d /\ ~White(lines[c]) /\ ~White(lines[d])
           /\ \A i \in 1 .. Len(lines) : ~White(lines[i]) => i \in c .. d
           /\ Trim(lines) \in Seq(S) /\ Len(Trim(lines)) = d - c + 1
           /\ Trim(lines)[1] = Flush(lines[c])
           /\ \A k \in 2 .. d - c + 1 : Trim(lines)[k] = lines[c + k - 1]
    BY <2>2, TrimParts
  <2> QED BY <1>0, <2>3
<1>3. c = 1 /\ d = m
  <2>1. 1 \in c .. d /\ m \in c .. d
    <3>1. 1 \in 1 .. n /\ m \in 1 .. n
      BY <1>0
    <3> QED BY <3>1, <1>1, <1>2
  <2>2. d \in m + 1 .. n => White(lines[d])
    BY <1>0
  <2> QED BY <2>1, <2>2, <1>2
<1>4. PICK w \in Seq(S) : w = Trim(lines)
  BY <1>2
<1>5. Len(w) = m /\ w[1] = Flush(lines[1]) /\ \A k \in 2 .. m : w[k] = lines[k]
  BY <1>2, <1>3, <1>4
<1>6. Flush(lines[1]) = t[1]
  <2>1. lines[1] \in Lines(Word) /\ lines[1].margin = "none"
    BY <1>0, <1>1 DEF Bounded
  <2> QED BY <2>1, <1>1, FlushLine
<1>7. \A i \in 1 .. m : w[i] = t[i]
  <2>1. ASSUME NEW i \in 1 .. m PROVE w[i] = t[i]
    <3>1. CASE i = 1
      BY <3>1, <1>5, <1>6
    <3>2. CASE i # 1
      BY <3>2, <1>0, <1>5
    <3> QED BY <3>1, <3>2
  <2> QED BY <2>1
<1>8. w = t
  BY <1>0, <1>5, <1>7, SeqEqual
<1> QED BY <1>4, <1>8

-----------------------------------------------------------------------------
(* Blocks of lines.                                                        *)

\* h[i] is what the first i lines are cut into.
Cuts(lines, h) ==
    h[0] = << <<>> >> /\ \A i \in 1 .. Len(lines) : h[i] = Join(h[i - 1], lines[i])

LEMMA CutsExist ==
    ASSUME NEW S, NEW lines \in Seq(S)
    PROVE  \E h : Cuts(lines, h)
<1>1. PICK T : T = {a \in Seq(S) : \E h : Cuts(a, h)}
  OBVIOUS
<1>2. <<>> \in T
  <2>1. PICK a \in Seq(S) : a = <<>> /\ Len(a) = 0
    BY EmptySeq
  <2>2. PICK h : h = [i \in 0 .. 0 |-> << <<>> >>]
    OBVIOUS
  <2>3. h[0] = << <<>> >>
    BY <2>2
  <2>4. Cuts(a, h)
    BY <2>1, <2>3 DEF Cuts
  <2>5. a \in T
    BY <1>1, <2>4
  <2> QED BY <2>1, <2>5
<1>3. ASSUME NEW a \in Seq(S), NEW e \in S, a \in T PROVE Append(a, e) \in T
  <2>1. PICK h : Cuts(a, h)
    BY <1>1, <1>3
  <2>2. PICK n \in Nat : n = Len(a)
    OBVIOUS
  <2>3. PICK u \in Seq(S) : /\ u = Append(a, e) /\ Len(u) = n + 1 /\ u[n + 1] = e
                            /\ \A i \in 1 .. n : u[i] = a[i]
    <3>1. PICK z : z = Append(a, e)
      OBVIOUS
    <3>2. z \in Seq(S) /\ Len(z) = n + 1 /\ z[n + 1] = e /\ \A i \in 1 .. n : z[i] = a[i]
      BY <2>2, <3>1, AppendProperties
    <3> QED BY <3>1, <3>2
  <2>4. PICK g : g = [i \in 0 .. n + 1 |-> IF i = n + 1 THEN Join(h[n], e) ELSE h[i]]
    OBVIOUS
  <2>5. g[n + 1] = Join(h[n], e) /\ \A i \in 0 .. n : g[i] = h[i]
    BY <2>4
  <2>6. ASSUME NEW i \in 1 .. n + 1 PROVE g[i] = Join(g[i - 1], u[i])
    <3>1. CASE i = n + 1
      <4>1. i - 1 = n /\ n \in 0 .. n
        BY <3>1
      <4> QED BY <4>1, <3>1, <2>3, <2>5
    <3>2. CASE i # n + 1
      <4>1. i \in 0 .. n /\ i - 1 \in 0 .. n /\ i \in 1 .. n
        BY <3>2
      <4>2. h[i] = Join(h[i - 1], a[i])
        BY <4>1, <2>1, <2>2 DEF Cuts
      <4> QED BY <4>1, <4>2, <2>3, <2>5
    <3> QED BY <3>1, <3>2
  <2>7. g[0] = << <<>> >>
    <3>1. 0 \in 0 .. n
      OBVIOUS
    <3> QED BY <3>1, <2>1, <2>5 DEF Cuts
  <2>8. Cuts(u, g)
    BY <2>3, <2>6, <2>7 DEF Cuts
  <2> QED BY <1>1, <2>3, <2>8
<1>4. lines \in T
  BY <1>2, <1>3, Growing
<1> QED BY <1>1, <1>4

LEMMA CutsBlocks ==
    ASSUME NEW S, NEW lines \in Seq(S), NEW h, Cuts(lines, h)
    PROVE  Blocks(lines) = h[Len(lines)]
<1>0. PICK n \in Nat : n = Len(lines)
  OBVIOUS
<1> DEFINE F(f) == [i \in 0 .. n |-> IF i = 0 THEN << <<>> >> ELSE Join(f[i - 1], lines[i])]
           joined == CHOOSE f : f = F(f)
<1>1. PICK g : g = [i \in 0 .. n |-> h[i]]
  OBVIOUS
<1>2. \A i \in 0 .. n : g[i] = h[i]
  BY <1>1
<1>3. g = F(g)
  <2>1. ASSUME NEW i \in 0 .. n
        PROVE  g[i] = IF i = 0 THEN << <<>> >> ELSE Join(g[i - 1], lines[i])
    <3>1. CASE i = 0
      BY <3>1, <1>2 DEF Cuts
    <3>2. CASE i # 0
      <4>1. i \in 1 .. n /\ i - 1 \in 0 .. n
        BY <3>2
      <4>2. h[i] = Join(h[i - 1], lines[i])
        BY <4>1, <1>0 DEF Cuts
      <4> QED BY <3>2, <4>1, <4>2, <1>2
    <3> QED BY <3>1, <3>2
  <2>2. [i \in 0 .. n |-> g[i]] = F(g)
    BY <2>1
  <2>3. g = [i \in 0 .. n |-> g[i]]
    BY <1>1
  <2> QED BY <2>2, <2>3
<1>4. joined = F(joined)
  BY <1>3
<1>5. Blocks(lines) = joined[n]
  BY <1>0 DEF Blocks
<1>6. PICK k : k = joined
  OBVIOUS
<1>7. k[0] = << <<>> >> /\ \A i \in 1 .. n : k[i] = Join(k[i - 1], lines[i])
  <2>1. k = F(k)
    BY <1>4, <1>6
  <2>2. \A i \in 0 .. n : k[i] = IF i = 0 THEN << <<>> >> ELSE Join(k[i - 1], lines[i])
    BY <2>1
  <2> QED BY <2>2
<1> HIDE DEF joined
<1>8. \A i \in 0 .. n : k[i] = h[i]
  <2>1. k[0] = h[0]
    BY <1>7 DEF Cuts
  <2>2. ASSUME NEW i \in 1 .. n, k[i - 1] = h[i - 1] PROVE k[i] = h[i]
    <3>1. h[i] = Join(h[i - 1], lines[i])
      BY <1>0 DEF Cuts
    <3> QED BY <1>7, <2>2, <3>1
  <2>3. Alike(k, h, n)
    BY <2>1, <2>2 DEF Alike
  <2> QED BY <2>3, SameWalk
<1>9. n \in 0 .. n
  OBVIOUS
<1> QED BY <1>0, <1>5, <1>6, <1>8, <1>9

\* No lines are one empty block, and every line is joined to what came of those
\* before it.
LEMMA BlocksGo ==
    ASSUME NEW S
    PROVE  /\ Blocks(<<>>) = << <<>> >>
           /\ \A a \in Seq(S), e \in S : Blocks(Append(a, e)) = Join(Blocks(a), e)
<1>1. Blocks(<<>>) = << <<>> >>
  <2>1. PICK a \in Seq(S) : a = <<>> /\ Len(a) = 0
    BY EmptySeq
  <2>2. PICK h : Cuts(a, h)
    BY CutsExist
  <2>3. Blocks(a) = h[0]
    BY <2>1, <2>2, CutsBlocks
  <2> QED BY <2>1, <2>2, <2>3 DEF Cuts
<1>2. ASSUME NEW a \in Seq(S), NEW e \in S
      PROVE  Blocks(Append(a, e)) = Join(Blocks(a), e)
  <2>1. PICK n \in Nat : n = Len(a)
    OBVIOUS
  <2>2. PICK u \in Seq(S) : /\ u = Append(a, e) /\ Len(u) = n + 1 /\ u[n + 1] = e
                            /\ \A i \in 1 .. n : u[i] = a[i]
    <3>1. PICK z : z = Append(a, e)
      OBVIOUS
    <3>2. z \in Seq(S) /\ Len(z) = n + 1 /\ z[n + 1] = e /\ \A i \in 1 .. n : z[i] = a[i]
      BY <2>1, <3>1, AppendProperties
    <3> QED BY <3>1, <3>2
  <2>3. PICK h : Cuts(u, h)
    BY CutsExist
  <2>4. Cuts(a, h)
    <3>1. ASSUME NEW i \in 1 .. n PROVE h[i] = Join(h[i - 1], a[i])
      <4>1. i \in 1 .. n + 1
        OBVIOUS
      <4>2. h[i] = Join(h[i - 1], u[i])
        BY <4>1, <2>2, <2>3 DEF Cuts
      <4> QED BY <4>2, <2>2
    <3> QED BY <3>1, <2>1, <2>3 DEF Cuts
  <2>5. Blocks(a) = h[n] /\ Blocks(u) = h[n + 1]
    BY <2>1, <2>2, <2>3, <2>4, CutsBlocks
  <2>6. h[n + 1] = Join(h[n], u[n + 1])
    <3>1. n + 1 \in 1 .. n + 1 /\ n + 1 - 1 = n
      OBVIOUS
    <3> QED BY <3>1, <2>2, <2>3 DEF Cuts
  <2> QED BY <2>2, <2>5, <2>6
<1> QED BY <1>1, <1>2

\* A line that is not blank goes to the last block, a blank one ends it.
LEMMA Joins ==
    ASSUME NEW S, NEW w \in Seq(Seq(S)), NEW y \in Seq(S), NEW e
    PROVE  Join(Append(w, y), e) =
              IF e.kind # "blank" THEN Append(w, Append(y, e))
              ELSE IF y = <<>> THEN Append(w, y) ELSE Append(Append(w, y), <<>>)
<1>1. PICK n \in Nat : n = Len(w)
  OBVIOUS
<1>2. PICK R : R = Seq(S) \cup {Append(y, e)}
  OBVIOUS
<1>3. w \in Seq(R) /\ y \in R /\ Append(y, e) \in R
  <2>1. Seq(S) \subseteq R
    BY <1>2
  <2> QED BY <1>2, <2>1, SeqMonotonic
<1>4. PICK u \in Seq(R) : /\ u = Append(w, y) /\ Len(u) = n + 1 /\ u[n + 1] = y
                          /\ \A i \in 1 .. n : u[i] = w[i]
  <2>1. PICK z : z = Append(w, y)
    OBVIOUS
  <2>2. z \in Seq(R) /\ Len(z) = n + 1 /\ z[n + 1] = y /\ \A i \in 1 .. n : z[i] = w[i]
    BY <1>1, <1>3, <2>1, AppendProperties
  <2> QED BY <2>1, <2>2
<1>5. PICK x \in R : x = Append(y, e)
  BY <1>3
<1>6. PICK v \in Seq(R) : /\ v = Append(w, x) /\ Len(v) = n + 1 /\ v[n + 1] = x
                          /\ \A i \in 1 .. n : v[i] = w[i]
  <2>1. PICK z : z = Append(w, x)
    OBVIOUS
  <2>2. z \in Seq(R) /\ Len(z) = n + 1 /\ z[n + 1] = x /\ \A i \in 1 .. n : z[i] = w[i]
    BY <1>1, <1>3, <1>5, <2>1, AppendProperties
  <2> QED BY <2>1, <2>2
<1>7. [u EXCEPT ![n + 1] = x] = v
  <2>1. n + 1 \in 1 .. Len(u)
    BY <1>4
  <2>2. PICK k \in 1 .. Len(u) : k = n + 1
    BY <2>1
  <2>3. /\ [u EXCEPT ![k] = x] \in Seq(R)
        /\ Len([u EXCEPT ![k] = x]) = Len(u)
        /\ \A j \in 1 .. Len(u) : [u EXCEPT ![k] = x][j] = IF j = k THEN x ELSE u[j]
    BY ExceptSeq
  <2>4. PICK z \in Seq(R) : z = [u EXCEPT ![k] = x]
    BY <2>3
  <2>5. Len(z) = n + 1 /\ \A j \in 1 .. n + 1 : z[j] = v[j]
    BY <1>4, <1>6, <2>2, <2>3, <2>4
  <2>6. z = v
    BY <1>6, <2>5, SeqEqual
  <2> QED BY <2>2, <2>4, <2>6
<1>8. CASE e.kind # "blank"
  <2>1. Join(u, e) = [u EXCEPT ![n + 1] = Append(u[n + 1], e)]
    BY <1>4, <1>8 DEF Join
  <2> QED BY <1>4, <1>5, <1>6, <1>7, <1>8, <2>1
<1>9. CASE e.kind = "blank"
  <2>1. Join(u, e) = IF u[n + 1] = <<>> THEN u ELSE Append(u, <<>>)
    BY <1>4, <1>9 DEF Join
  <2> QED BY <1>4, <1>9, <2>1
<1> QED BY <1>8, <1>9

\* The lines a are cut into the blocks w, which are finished, and y; first is the
\* first of them.
Shape(a, w, y) ==
    LET first == IF w = <<>> THEN y ELSE w[1]
    IN  /\ Blocks(a) = Append(w, y)
        /\ a = <<>> => w = <<>> /\ y = <<>>
        /\ a # <<>> /\ a[1].kind # "blank" => first # <<>> /\ first[1] = a[1]
        /\ a # <<>> /\ a[Len(a)].kind # "blank" => y # <<>> /\ y[Len(y)] = a[Len(a)]

LEMMA ShapeStep ==
    ASSUME NEW a \in Text, NEW e \in Lines(Word), NEW w \in Seq(Piece), NEW y \in Seq(Solid),
           Shape(a, w, y)
    PROVE  \E v \in Seq(Piece), z \in Seq(Solid) : Shape(Append(a, e), v, z)
<1>1. PICK n \in Nat : n = Len(a)
  BY DEF Text
<1>2. PICK u : u = Append(a, e)
  OBVIOUS
<1>3. u \in Text /\ Len(u) = n + 1 /\ u[n + 1] = e /\ (\A i \in 1 .. n : u[i] = a[i]) /\ u # <<>>
  BY <1>1, <1>2, AppendProperties DEF Text
<1>4. /\ a = <<>> => u[1] = e
      /\ a # <<>> => u[1] = a[1]
  <2>1. a = <<>> => n = 0
    BY <1>1
  <2>2. a # <<>> => 1 \in 1 .. n
    BY <1>1 DEF Text
  <2> QED BY <1>3, <2>1, <2>2
<1>5. Blocks(u) = IF e.kind # "blank" THEN Append(w, Append(y, e))
                  ELSE IF y = <<>> THEN Append(w, y) ELSE Append(Append(w, y), <<>>)
  <2>1. w \in Seq(Seq(Solid))
    <3>1. Piece \subseteq Seq(Solid)
      BY DEF Piece
    <3> QED BY <3>1, SeqMonotonic
  <2>2. Blocks(u) = Join(Blocks(a), e)
    BY <1>2, BlocksGo DEF Text
  <2>3. Join(Append(w, y), e) = IF e.kind # "blank" THEN Append(w, Append(y, e))
                                ELSE IF y = <<>> THEN Append(w, y)
                                ELSE Append(Append(w, y), <<>>)
    BY <2>1, Joins
  <2>4. Blocks(a) = Append(w, y)
    BY DEF Shape
  <2> QED BY <2>2, <2>3, <2>4
<1>6. PICK f : f = IF w = <<>> THEN y ELSE w[1]
  OBVIOUS
<1>7. /\ a = <<>> => w = <<>> /\ y = <<>>
      /\ a # <<>> /\ a[1].kind # "blank" => f # <<>> /\ f[1] = a[1]
  BY <1>6 DEF Shape
<1>8. CASE e.kind # "blank"
  <2>1. e \in Solid
    BY <1>8 DEF Solid
  <2>2. PICK m \in Nat : m = Len(y)
    OBVIOUS
  <2>3. PICK z : z = Append(y, e)
    OBVIOUS
  <2>4. z \in Seq(Solid) /\ Len(z) = m + 1 /\ z[m + 1] = e /\ (\A i \in 1 .. m : z[i] = y[i])
        /\ z # <<>>
    BY <2>1, <2>2, <2>3, AppendProperties
  <2>5. y = <<>> => z[1] = e
    <3>1. y = <<>> => m = 0
      BY <2>2
    <3> QED BY <2>4, <3>1
  <2>6. y # <<>> => z[1] = y[1]
    <3>1. y # <<>> => 1 \in 1 .. m
      BY <2>2
    <3> QED BY <2>4, <3>1
  <2>7. u[1].kind # "blank" => LET first == IF w = <<>> THEN z ELSE w[1]
                               IN  first # <<>> /\ first[1] = u[1]
    <3>1. CASE a = <<>>
      BY <3>1, <1>4, <1>7, <2>4, <2>5
    <3>2. CASE a # <<>>
      BY <3>2, <1>4, <1>6, <1>7, <2>4, <2>6
    <3> QED BY <3>1, <3>2
  <2>8. z # <<>> /\ z[Len(z)] = u[Len(u)]
    BY <2>4, <1>3
  <2>9. Blocks(u) = Append(w, z)
    BY <1>5, <1>8, <2>3
  <2>10. Shape(u, w, z)
    BY <1>3, <2>7, <2>8, <2>9 DEF Shape
  <2> QED BY <1>2, <2>4, <2>10
<1>9. CASE e.kind = "blank" /\ y = <<>>
  <2>1. u[1].kind # "blank" => f # <<>> /\ f[1] = u[1]
    BY <1>4, <1>7, <1>9
  <2>2. u[Len(u)].kind = "blank" /\ Blocks(u) = Append(w, y)
    BY <1>3, <1>5, <1>9
  <2>3. Shape(u, w, y)
    BY <1>3, <1>6, <2>1, <2>2 DEF Shape
  <2> QED BY <1>2, <2>3
<1>10. CASE e.kind = "blank" /\ y # <<>>
  <2>1. PICK v : v = Append(w, y)
    OBVIOUS
  <2>2. y \in Piece
    BY <1>10 DEF Piece
  <2>3. PICK m \in Nat : m = Len(w)
    OBVIOUS
  <2>4. v \in Seq(Piece) /\ Len(v) = m + 1 /\ v[m + 1] = y /\ (\A i \in 1 .. m : v[i] = w[i])
        /\ v # <<>>
    BY <2>1, <2>2, <2>3, AppendProperties
  <2>5. v[1] = f
    <3>1. w = <<>> => m = 0
      BY <2>3
    <3>2. w # <<>> => 1 \in 1 .. m
      BY <2>3
    <3> QED BY <1>6, <2>4, <3>1, <3>2
  <2>6. u[1].kind # "blank" => v[1] # <<>> /\ v[1][1] = u[1]
    BY <1>4, <1>7, <1>10, <2>5
  <2>7. PICK z \in Seq(Solid) : z = <<>>
    BY EmptySeq
  <2>8. u[Len(u)].kind = "blank" /\ Blocks(u) = Append(v, z)
    BY <1>3, <1>5, <1>10, <2>1, <2>7
  <2>9. Shape(u, v, z)
    BY <1>3, <2>4, <2>6, <2>8 DEF Shape
  <2> QED BY <1>2, <2>4, <2>9
<1> QED BY <1>8, <1>9, <1>10

\* Lines that begin and end with something: every block has lines, the first begins
\* as they do and the last ends as they do.
LEMMA BlocksShape ==
    ASSUME NEW lines \in Text, lines # <<>>, ~White(lines[1]), ~White(lines[Len(lines)])
    PROVE  \E bs \in Seq(Piece) :
              /\ bs = Blocks(lines) /\ bs # <<>> /\ bs[1][1] = lines[1]
              /\ ~White(bs[Len(bs)][Len(bs[Len(bs)])])
<1>1. PICK T : T = {a \in Text : \E w \in Seq(Piece), y \in Seq(Solid) : Shape(a, w, y)}
  OBVIOUS
<1>2. <<>> \in T
  <2>1. PICK a \in Text : a = <<>>
    BY EmptySeq DEF Text
  <2>2. PICK w \in Seq(Piece), y \in Seq(Solid) : w = <<>> /\ y = <<>>
    BY EmptySeq
  <2>3. Append(w, y) = << <<>> >>
    BY <2>2
  <2>4. Blocks(a) = << <<>> >>
    BY <2>1, BlocksGo
  <2>5. Shape(a, w, y)
    BY <2>1, <2>2, <2>3, <2>4 DEF Shape
  <2>6. a \in T
    BY <1>1, <2>5
  <2> QED BY <2>1, <2>6
<1>3. ASSUME NEW a \in Text, NEW e \in Lines(Word), a \in T PROVE Append(a, e) \in T
  <2>1. Append(a, e) \in Text
    BY AppendProperties DEF Text
  <2>2. PICK w \in Seq(Piece), y \in Seq(Solid) : Shape(a, w, y)
    BY <1>1, <1>3
  <2> QED BY <1>1, <2>1, <2>2, ShapeStep
<1>4. lines \in T
  BY <1>2, <1>3, Growing DEF Text
<1>5. PICK w \in Seq(Piece), y \in Seq(Solid) : Shape(lines, w, y)
  BY <1>1, <1>4
<1>6. lines[1].kind # "blank" /\ lines[Len(lines)].kind # "blank"
  BY DEF White
<1>7. y \in Piece /\ y[Len(y)] = lines[Len(lines)]
  BY <1>5, <1>6 DEF Shape, Piece
<1>8. PICK f : f = IF w = <<>> THEN y ELSE w[1]
  OBVIOUS
<1>9. f[1] = lines[1]
  BY <1>5, <1>6, <1>8 DEF Shape
<1>10. PICK m \in Nat : m = Len(w)
  OBVIOUS
<1>11. PICK v : v = Append(w, y)
  OBVIOUS
<1>12. v \in Seq(Piece) /\ Len(v) = m + 1 /\ v[m + 1] = y /\ (\A i \in 1 .. m : v[i] = w[i])
       /\ v # <<>>
  BY <1>7, <1>10, <1>11, AppendProperties
<1>13. v[1] = f
  <2>1. w = <<>> => m = 0
    BY <1>10
  <2>2. w # <<>> => 1 \in 1 .. m
    BY <1>10
  <2> QED BY <1>8, <1>12, <2>1, <2>2
<1>14. Blocks(lines) = v
  BY <1>5, <1>11 DEF Shape
<1> QED BY <1>7, <1>9, <1>12, <1>13, <1>14

-----------------------------------------------------------------------------
(* Lines of blocks.                                                        *)

\* One list after the other.
LEMMA FlattenUnfolds ==
    ASSUME NEW S, NEW s \in Seq(Seq(S))
    PROVE  \E h : /\ FlattenSeq(s) = h[Len(s)] /\ h[0] = <<>>
                  /\ \A i \in 0 .. Len(s) : h[i] \in Seq(S)
                  /\ \A i \in 1 .. Len(s) : h[i] = h[i - 1] \o s[i]
<1>0. PICK n \in Nat : n = Len(s)
  OBVIOUS
<1>1. PICK W : W = [i \in 0 .. n |-> Seq(S)]
  OBVIOUS
<1>2. PICK step : step = [i \in 1 .. n |-> [w \in Seq(S) |-> w \o s[i]]]
  OBVIOUS
<1>3. PICK b \in Seq(S) : b = <<>>
  BY EmptySeq
<1>4. \A i \in 1 .. n : i \in 0 .. n /\ i - 1 \in 0 .. n /\ i # 0
  OBVIOUS
<1>5. \A i \in 1 .. n : s[i] \in Seq(S)
  BY <1>0
<1>6. \A i \in 1 .. n : \A w \in Seq(S) : step[i][w] \in Seq(S)
  <2>1. ASSUME NEW i \in 1 .. n, NEW w \in Seq(S) PROVE w \o s[i] \in Seq(S)
    BY <1>5, ConcatProperties
  <2> QED BY <1>2, <2>1
<1>7. b \in W[0] /\ \A i \in 1 .. n : \A w \in W[i - 1] : step[i][w] \in W[i]
  BY <1>1, <1>4, <1>6
<1>8. PICK g : Goes(g, n, b, step) /\ \A i \in 0 .. n : g[i] \in W[i]
  BY <1>7, Recursion
<1>9. /\ g = [i \in 0 .. n |-> g[i]] /\ g[0] = b /\ \A i \in 0 .. n : g[i] \in Seq(S)
      /\ \A i \in 1 .. n : g[i] = g[i - 1] \o s[i]
  <2>1. /\ g = [i \in 0 .. n |-> g[i]] /\ g[0] = b /\ \A i \in 0 .. n : g[i] \in Seq(S)
        /\ \A i \in 1 .. n : g[i] = step[i][g[i - 1]]
    BY <1>1, <1>8 DEF Goes
  <2>2. \A i \in 1 .. n : g[i] = g[i - 1] \o s[i]
    BY <2>1, <1>2, <1>4
  <2> QED BY <2>1, <2>2
<1>10. CASE n = 0
  <2>1. FlattenSeq(s) = s /\ s = <<>>
    <3>1. Len(s) = 0
      BY <1>0, <1>10
    <3>2. FlattenSeq(s) = s
      BY <3>1, Zenon DEF FlattenSeq
    <3>3. s = <<>>
      BY <3>1
    <3> QED BY <3>2, <3>3
  <2>2. FlattenSeq(s) = g[n]
    BY <2>1, <1>3, <1>9, <1>10
  <2> QED BY <1>0, <1>3, <1>9, <2>2
<1>11. CASE n # 0
  <2> DEFINE F(f) == [i \in 1 .. n |-> IF i = 1 THEN s[i] ELSE f[i - 1] \o s[i]]
             flatten == CHOOSE f : f = F(f)
  <2>1. PICK v : v = [i \in 1 .. n |-> g[i]]
    OBVIOUS
  <2>2. v = F(v)
    <3>1. ASSUME NEW i \in 1 .. n PROVE v[i] = IF i = 1 THEN s[i] ELSE v[i - 1] \o s[i]
      <4>1. CASE i = 1
        <5>1. g[1] = b \o s[1]
          <6>1. 1 \in 1 .. n /\ 1 - 1 = 0
            BY <4>1
          <6> QED BY <6>1, <1>9
        <5>2. s[1] \in Seq(S)
          BY <4>1, <1>5
        <5>3. b \o s[1] = s[1]
          BY <5>2, <1>3, ConcatEmptySeq
        <5> QED BY <4>1, <5>1, <5>3, <2>1
      <4>2. CASE i # 1
        <5>1. i - 1 \in 1 .. n
          BY <4>2
        <5> QED BY <4>2, <5>1, <1>9, <2>1
      <4> QED BY <4>1, <4>2
    <3>2. [i \in 1 .. n |-> v[i]] = F(v)
      BY <3>1
    <3>3. v = [i \in 1 .. n |-> v[i]]
      BY <2>1
    <3> QED BY <3>2, <3>3
  <2>3. flatten = F(flatten)
    BY <2>2
  <2>4. FlattenSeq(s) = flatten[n]
    BY <1>0, <1>11 DEF FlattenSeq
  <2>5. PICK k : k = flatten
    OBVIOUS
  <2>6. \A i \in 1 .. n : k[i] = IF i = 1 THEN s[i] ELSE k[i - 1] \o s[i]
    <3>1. k = F(k)
      BY <2>3, <2>5, ZenonT(20)
    <3> QED BY <3>1
  <2> HIDE DEF flatten
  <2>7. PICK f : f = [i \in 0 .. n |-> IF i = 0 THEN b ELSE k[i]]
    OBVIOUS
  <2>8. f[0] = b /\ \A i \in 1 .. n : f[i] = k[i]
    BY <2>7, <1>4
  <2>9. ASSUME NEW i \in 1 .. n, f[i - 1] = g[i - 1] PROVE f[i] = g[i]
    <3>1. CASE i = 1
      <4>1. g[1] = b \o s[1]
        <5>1. 1 \in 1 .. n /\ 1 - 1 = 0
          BY <3>1
        <5> QED BY <5>1, <1>9
      <4>2. s[1] \in Seq(S)
        BY <3>1, <1>5
      <4>3. b \o s[1] = s[1]
        BY <4>2, <1>3, ConcatEmptySeq
      <4> QED BY <3>1, <4>1, <4>3, <2>6, <2>8
    <3>2. CASE i # 1
      <4>1. i - 1 \in 1 .. n
        BY <3>2
      <4>2. k[i] = k[i - 1] \o s[i] /\ g[i] = g[i - 1] \o s[i]
        BY <3>2, <1>9, <2>6
      <4>3. f[i] = k[i] /\ f[i - 1] = k[i - 1]
        BY <4>1, <2>8
      <4> QED BY <4>2, <4>3, <2>9
    <3> QED BY <3>1, <3>2
  <2>10. \A i \in 0 .. n : f[i] = g[i]
    <3>1. PICK T : T = {i \in 0 .. n : f[i] = g[i]}
      OBVIOUS
    <3>2. 0 \in T
      BY <3>1, <2>8, <1>9
    <3>3. ASSUME NEW i \in 0 .. n - 1, i \in T PROVE i + 1 \in T
      <4>1. PICK j \in 1 .. n : j = i + 1 /\ j - 1 = i /\ j \in 0 .. n
        OBVIOUS
      <4>2. f[j - 1] = g[j - 1]
        BY <3>1, <3>3, <4>1
      <4> QED BY <2>9, <3>1, <4>1, <4>2
    <3>4. \A i \in 0 .. n : i \in T
      BY <3>2, <3>3, UpTo
    <3> QED BY <3>1, <3>4
  <2>11. n \in 1 .. n /\ n \in 0 .. n
    BY <1>11
  <2>12. FlattenSeq(s) = g[n]
    BY <2>4, <2>5, <2>8, <2>10, <2>11
  <2> QED BY <1>0, <1>3, <1>9, <2>12
<1> QED BY <1>10, <1>11

LEMMA FlattenGo ==
    ASSUME NEW S
    PROVE  /\ FlattenSeq(<<>>) = <<>>
           /\ \A a \in Seq(Seq(S)) : FlattenSeq(a) \in Seq(S)
           /\ \A a \in Seq(Seq(S)), e \in Seq(S) :
                 FlattenSeq(Append(a, e)) = FlattenSeq(a) \o e
<1>1. \A a \in Seq(Seq(S)) : FlattenSeq(a) \in Seq(S)
  <2> TAKE a \in Seq(Seq(S))
  <2>1. PICK n \in Nat : n = Len(a)
    OBVIOUS
  <2>2. PICK h : FlattenSeq(a) = h[n] /\ \A i \in 0 .. n : h[i] \in Seq(S)
    BY <2>1, FlattenUnfolds
  <2> QED BY <2>2
<1>2. FlattenSeq(<<>>) = <<>>
  BY DEF FlattenSeq
<1>3. ASSUME NEW a \in Seq(Seq(S)), NEW e \in Seq(S)
      PROVE  FlattenSeq(Append(a, e)) = FlattenSeq(a) \o e
  <2>0. ASSUME NEW s \in Seq(Seq(S))
        PROVE  \E k : /\ FlattenSeq(s) = k[Len(s)] /\ k[0] = <<>>
                      /\ \A i \in 1 .. Len(s) : k[i] = k[i - 1] \o s[i]
    <3>1. \E h : /\ FlattenSeq(s) = h[Len(s)] /\ h[0] = <<>>
                 /\ \A i \in 0 .. Len(s) : h[i] \in Seq(S)
                 /\ \A i \in 1 .. Len(s) : h[i] = h[i - 1] \o s[i]
      BY FlattenUnfolds
    <3> QED BY <3>1
  <2>1. PICK n \in Nat : n = Len(a)
    OBVIOUS
  <2>2. PICK u : u = Append(a, e)
    OBVIOUS
  <2>3. u \in Seq(Seq(S)) /\ Len(u) = n + 1 /\ u[n + 1] = e /\ \A i \in 1 .. n : u[i] = a[i]
    BY <2>1, <2>2, AppendProperties
  <2>4. PICK h : /\ FlattenSeq(a) = h[n] /\ h[0] = <<>>
                 /\ \A i \in 1 .. n : h[i] = h[i - 1] \o a[i]
    BY <2>1, FlattenUnfolds, ZenonT(20)
  <2>5. PICK g : /\ FlattenSeq(u) = g[n + 1] /\ g[0] = <<>>
                 /\ \A i \in 1 .. n + 1 : g[i] = g[i - 1] \o u[i]
    <3>1. \E k : /\ FlattenSeq(u) = k[Len(u)] /\ k[0] = <<>>
                 /\ \A i \in 1 .. Len(u) : k[i] = k[i - 1] \o u[i]
      BY <2>0, <2>3
    <3> QED BY <2>3, <3>1
  <2>6. ASSUME NEW i \in 1 .. n, g[i - 1] = h[i - 1] PROVE g[i] = h[i]
    <3>1. i \in 1 .. n + 1
      OBVIOUS
    <3> QED BY <3>1, <2>3, <2>4, <2>5, <2>6
  <2>7. \A i \in 0 .. n : g[i] = h[i]
    <3>1. Alike(g, h, n)
      BY <2>4, <2>5, <2>6 DEF Alike
    <3> QED BY <3>1, SameWalk
  <2>8. n \in 0 .. n /\ n + 1 \in 1 .. n + 1 /\ n + 1 - 1 = n
    OBVIOUS
  <2>9. g[n + 1] = g[n] \o u[n + 1] /\ g[n] = h[n]
    <3>1. PICK j \in 1 .. n + 1 : j = n + 1 /\ j - 1 = n
      BY <2>8
    <3>2. g[j] = g[j - 1] \o u[j]
      BY <2>5
    <3> QED BY <3>1, <3>2, <2>7, <2>8
  <2> QED BY <2>2, <2>3, <2>4, <2>5, <2>9
<1> QED BY <1>1, <1>2, <1>3

\* Every element of a list mapped by f.
Mapped(a, f) == [k \in DOMAIN a |-> f[a[k]]]

LEMMA MappedGo ==
    ASSUME NEW S, NEW R, NEW f \in [S -> R], NEW a \in Seq(S)
    PROVE  Mapped(a, f) \in Seq(R) /\ Len(Mapped(a, f)) = Len(a)
<1>1. PICK n \in Nat : n = Len(a) /\ DOMAIN a = 1 .. n
  OBVIOUS
<1>2. PICK m : m = [k \in 1 .. n |-> f[a[k]]]
  OBVIOUS
<1>3. \A k \in 1 .. n : a[k] \in S /\ f[a[k]] \in R
  BY <1>1
<1>4. m \in [1 .. n -> R]
  BY <1>2, <1>3
<1>5. m \in Seq(R) /\ Len(m) = n
  BY <1>4, Listed
<1>6. Mapped(a, f) = m
  BY <1>1, <1>2 DEF Mapped
<1> QED BY <1>1, <1>5, <1>6

LEMMA MappedAppended ==
    ASSUME NEW S, NEW R, NEW f \in [S -> R], NEW a \in Seq(S), NEW e \in S
    PROVE  Mapped(Append(a, e), f) = Append(Mapped(a, f), f[e])
<1>1. PICK n \in Nat : n = Len(a) /\ DOMAIN a = 1 .. n
  OBVIOUS
<1>2. PICK m \in Seq(R) : m = Mapped(a, f) /\ Len(m) = n
  <2>1. Mapped(a, f) \in Seq(R) /\ Len(Mapped(a, f)) = Len(a)
    BY MappedGo, SMTT(30)
  <2> QED BY <2>1, <1>1
<1>3. \A k \in 1 .. n : m[k] = f[a[k]]
  BY <1>1, <1>2 DEF Mapped
<1>4. PICK u : u = Append(a, e)
  OBVIOUS
<1>5. u \in Seq(S) /\ Len(u) = n + 1 /\ u[n + 1] = e /\ \A i \in 1 .. n : u[i] = a[i]
  BY <1>1, <1>4, AppendProperties
<1>6. PICK x \in R : x = f[e]
  OBVIOUS
<1>7. PICK v : v = Append(m, x)
  OBVIOUS
<1>8. v \in Seq(R) /\ Len(v) = n + 1 /\ v[n + 1] = x /\ \A i \in 1 .. n : v[i] = m[i]
  BY <1>2, <1>7, AppendProperties
<1>9. ASSUME NEW i \in 1 .. n + 1 PROVE v[i] = f[u[i]]
  <2>1. CASE i = n + 1
    BY <2>1, <1>5, <1>6, <1>8
  <2>2. CASE i # n + 1
    <3>1. i \in 1 .. n
      BY <2>2
    <3> QED BY <3>1, <1>5, <1>8, <1>3
  <2> QED BY <2>1, <2>2
<1>10. DOMAIN v = 1 .. n + 1 /\ DOMAIN u = 1 .. n + 1
  BY <1>5, <1>8
<1>11. v = [k \in 1 .. n + 1 |-> v[k]]
  BY <1>8, <1>10
<1>12. Mapped(u, f) = [k \in 1 .. n + 1 |-> f[u[k]]]
  BY <1>10 DEF Mapped
<1>13. Mapped(u, f) = v
  BY <1>9, <1>11, <1>12
<1> QED BY <1>2, <1>4, <1>6, <1>7, <1>13

\* The lines of a file with the blocks bs.
Written(bs) == FlattenSeq([k \in DOMAIN bs |-> Append(bs[k], Blank)])

LEMMA BlankLine == Blank \in Lines(Word) /\ White(Blank) /\ Blank.kind = "blank"
<1>1. Blank \in Said
  BY DEF Blank, Line, Said, Margin
<1> QED BY <1>1, LineKinds DEF Blank, Line, White

LEMMA WrittenGo ==
    /\ Written(<<>>) = <<>>
    /\ \A a \in Seq(Text) : Written(a) \in Text
    /\ \A a \in Seq(Text), e \in Text : Written(Append(a, e)) = Written(a) \o Append(e, Blank)
<1>1. PICK f : f = [x \in Text |-> Append(x, Blank)]
  OBVIOUS
<1>2. f \in [Text -> Text]
  <2>1. \A x \in Text : Append(x, Blank) \in Text
    BY BlankLine, AppendProperties DEF Text
  <2> QED BY <1>1, <2>1
<1>3. ASSUME NEW a \in Seq(Text) PROVE Written(a) = FlattenSeq(Mapped(a, f))
  <2>1. \A k \in DOMAIN a : a[k] \in Text
    OBVIOUS
  <2>2. [k \in DOMAIN a |-> Append(a[k], Blank)] = [k \in DOMAIN a |-> f[a[k]]]
    BY <1>1, <2>1
  <2> QED BY <2>2 DEF Written, Mapped
<1>7. ASSUME NEW a \in Seq(Text)
      PROVE  /\ Mapped(a, f) \in Seq(Text)
             /\ \A e \in Text : Mapped(Append(a, e), f) = Append(Mapped(a, f), f[e])
  <2>1. Mapped(a, f) \in Seq(Text)
    BY <1>2, MappedGo, SMTT(30)
  <2>2. ASSUME NEW e \in Text PROVE Mapped(Append(a, e), f) = Append(Mapped(a, f), f[e])
    BY <1>2, MappedAppended
  <2> QED BY <2>1, <2>2
<1>4. \A a \in Seq(Text) : Written(a) \in Text
  <2> TAKE a \in Seq(Text)
  <2>1. PICK m \in Seq(Text) : m = Mapped(a, f)
    BY <1>7
  <2>2. FlattenSeq(m) \in Text
    BY FlattenGo DEF Text
  <2> QED BY <1>3, <2>1, <2>2
<1>5. ASSUME NEW a \in Seq(Text), NEW e \in Text
      PROVE  Written(Append(a, e)) = Written(a) \o Append(e, Blank)
  <2>1. PICK m \in Seq(Text) : m = Mapped(a, f)
    BY <1>7
  <2>2. Append(a, e) \in Seq(Text)
    OBVIOUS
  <2>3. Mapped(Append(a, e), f) = Append(m, f[e])
    BY <1>7, <2>1
  <2>4. f[e] = Append(e, Blank) /\ f[e] \in Text
    BY <1>1, <1>2
  <2>5. FlattenSeq(Append(m, f[e])) = FlattenSeq(m) \o f[e]
    BY <2>4, FlattenGo DEF Text
  <2> QED BY <1>3, <2>1, <2>2, <2>3, <2>4, <2>5
<1>6. Written(<<>>) = <<>>
  <2>1. PICK a \in Seq(Text) : a = <<>> /\ DOMAIN a = {}
    <3>1. PICK a \in Seq(Text) : a = <<>> /\ Len(a) = 0
      BY EmptySeq
    <3>2. DOMAIN a = {}
      BY <3>1
    <3> QED BY <3>1, <3>2
  <2>2. [k \in DOMAIN a |-> Append(a[k], Blank)] = <<>>
    BY <2>1
  <2> QED BY <2>1, <2>2, FlattenGo DEF Written
<1> QED BY <1>4, <1>5, <1>6

LEMMA ConcatAppend ==
    ASSUME NEW S, NEW a \in Seq(S), NEW b \in Seq(S), NEW e \in S
    PROVE  a \o Append(b, e) = Append(a \o b, e)
<1>1. PICK one \in Seq(S) : one = <<e>>
  <2>1. <<e>> \in Seq(S)
    OBVIOUS
  <2> QED BY <2>1
<1>2. Append(b, e) = b \o one
  BY <1>1, AppendIsConcat
<1>3. PICK c \in Seq(S) : c = a \o b
  BY ConcatProperties
<1>4. Append(c, e) = c \o one
  BY <1>1, AppendIsConcat
<1>5. (a \o b) \o one = a \o (b \o one)
  BY ConcatAssociative
<1> QED BY <1>2, <1>3, <1>4, <1>5

\* Pieces are blocks of lines.
LEMMA Pieces ==
    /\ Piece \subseteq Seq(Solid) /\ Piece \subseteq Text
    /\ Seq(Piece) \subseteq Seq(Seq(Solid)) /\ Seq(Piece) \subseteq Seq(Text)
<1>1. Piece \subseteq Seq(Solid) /\ Piece \subseteq Text
  BY Solids DEF Piece
<1>2. \A s \in Seq(Piece) : s \in Seq(Seq(Solid)) /\ s \in Seq(Text)
  BY <1>1, SeqMonotonic
<1> QED BY <1>1, <1>2

\* Lines that are not blank go to the block that is open.
LEMMA BlocksJoined ==
    ASSUME NEW l \in Text, NEW w \in Seq(Piece), Blocks(l) = Append(w, <<>>),
           NEW b \in Seq(Solid)
    PROVE  Blocks(l \o b) = Append(w, b)
<1>1. PICK T : T = {c \in Seq(Solid) : Blocks(l \o c) = Append(w, c)}
  OBVIOUS
<1>2. <<>> \in T
  <2>1. PICK c \in Seq(Solid) : c = <<>>
    BY EmptySeq
  <2>2. l \o c = l
    BY <2>1, ConcatEmptySeq DEF Text
  <2>3. c \in T
    BY <1>1, <2>1, <2>2
  <2> QED BY <2>1, <2>3
<1>3. ASSUME NEW c \in Seq(Solid), NEW e \in Solid, c \in T PROVE Append(c, e) \in T
  <2>1. PICK k : k = l \o c
    OBVIOUS
  <2>2. c \in Text /\ e \in Lines(Word)
    BY Solids
  <2>3. k \in Text
    BY <2>1, <2>2, ConcatProperties DEF Text
  <2>4. l \o Append(c, e) = Append(k, e)
    BY <2>1, <2>2, ConcatAppend DEF Text
  <2>5. Blocks(Append(k, e)) = Join(Blocks(k), e)
    BY <2>2, <2>3, BlocksGo DEF Text
  <2>6. Blocks(k) = Append(w, c)
    BY <1>1, <1>3, <2>1
  <2>7. w \in Seq(Seq(Solid))
    BY Pieces
  <2>8. Join(Append(w, c), e) = IF e.kind # "blank" THEN Append(w, Append(c, e))
                                ELSE IF c = <<>> THEN Append(w, c)
                                ELSE Append(Append(w, c), <<>>)
    BY <2>7, Joins
  <2>9. e.kind # "blank"
    BY DEF Solid
  <2>10. Append(c, e) \in Seq(Solid)
    BY AppendProperties
  <2> QED BY <1>1, <2>4, <2>5, <2>6, <2>8, <2>9, <2>10
<1>4. b \in T
  BY <1>2, <1>3, Growing
<1> QED BY <1>1, <1>4

\* A file written block by block is cut into the same blocks, and an empty one.
LEMMA BlocksWritten ==
    ASSUME NEW bs \in Seq(Piece)
    PROVE  Blocks(Written(bs)) = Append(bs, <<>>)
<1>1. PICK T : T = {a \in Seq(Piece) : Blocks(Written(a)) = Append(a, <<>>)}
  OBVIOUS
<1>2. <<>> \in T
  <2>1. PICK a \in Seq(Piece) : a = <<>>
    BY EmptySeq
  <2>2. Append(a, <<>>) = << <<>> >>
    BY <2>1
  <2>3. Blocks(Written(a)) = << <<>> >>
    BY <2>1, WrittenGo, BlocksGo
  <2>4. a \in T
    BY <1>1, <2>2, <2>3
  <2> QED BY <2>1, <2>4
<1>3. ASSUME NEW a \in Seq(Piece), NEW e \in Piece, a \in T PROVE Append(a, e) \in T
  <2>1. a \in Seq(Text) /\ e \in Text /\ e \in Seq(Solid)
    BY Pieces
  <2>2. PICK l \in Text : l = Written(a)
    BY <2>1, WrittenGo
  <2>3. PICK c : c = l \o e
    OBVIOUS
  <2>4. c \in Text
    BY <2>1, <2>3, ConcatProperties DEF Text
  <2>5. Written(Append(a, e)) = Append(c, Blank)
    <3>1. Written(Append(a, e)) = l \o Append(e, Blank)
      BY <2>1, <2>2, WrittenGo
    <3>2. l \o Append(e, Blank) = Append(l \o e, Blank)
      BY <2>1, BlankLine, ConcatAppend DEF Text
    <3> QED BY <3>1, <3>2, <2>3
  <2>6. Blocks(c) = Append(a, e)
    BY <1>1, <1>3, <2>1, <2>2, <2>3, BlocksJoined
  <2>7. Blocks(Append(c, Blank)) = Join(Append(a, e), Blank)
    BY <2>4, <2>6, BlankLine, BlocksGo DEF Text
  <2>8. a \in Seq(Seq(Solid)) /\ e # <<>>
    BY Pieces DEF Piece
  <2>9. Join(Append(a, e), Blank) = IF Blank.kind # "blank" THEN Append(a, Append(e, Blank))
                                    ELSE IF e = <<>> THEN Append(a, e)
                                    ELSE Append(Append(a, e), <<>>)
    BY <2>1, <2>8, Joins
  <2>10. Append(a, e) \in Seq(Piece)
    BY AppendProperties
  <2> QED BY <1>1, <2>5, <2>7, <2>8, <2>9, <2>10, BlankLine
<1>4. bs \in T
  BY <1>2, <1>3, Growing
<1> QED BY <1>1, <1>4

\* Such a file begins as its first block does.
LEMMA WrittenFirst ==
    ASSUME NEW bs \in Seq(Piece), bs # <<>>
    PROVE  Written(bs) # <<>> /\ Written(bs)[1] = bs[1][1]
<1>1. PICK T : T = {a \in Seq(Piece) :
                      a # <<>> => Written(a) # <<>> /\ Written(a)[1] = a[1][1]}
  OBVIOUS
<1>2. <<>> \in T
  <2>1. PICK a \in Seq(Piece) : a = <<>>
    BY EmptySeq
  <2>2. a \in T
    BY <1>1, <2>1
  <2> QED BY <2>1, <2>2
<1>3. ASSUME NEW a \in Seq(Piece), NEW e \in Piece, a \in T PROVE Append(a, e) \in T
  <2>1. a \in Seq(Text) /\ e \in Text /\ e # <<>>
    BY Pieces DEF Piece
  <2>2. PICK l \in Text : l = Written(a)
    BY <2>1, WrittenGo
  <2>3. PICK m \in Nat, n \in Nat \ {0} : m = Len(l) /\ n = Len(e)
    BY <2>1 DEF Text
  <2>4. PICK x : x = Append(e, Blank)
    OBVIOUS
  <2>5. x \in Text /\ Len(x) = n + 1 /\ x[1] = e[1]
    BY <2>1, <2>3, <2>4, BlankLine, AppendProperties DEF Text
  <2>6. PICK c : c = l \o x
    OBVIOUS
  <2>7. c \in Text /\ Len(c) = m + (n + 1)
        /\ \A i \in 1 .. m + (n + 1) : c[i] = IF i <= m THEN l[i] ELSE x[i - m]
    <3>1. PICK p \in Nat : p = n + 1 /\ p = Len(x)
      BY <2>5
    <3>2. /\ l \o x \in Text /\ Len(l \o x) = Len(l) + Len(x)
          /\ \A i \in 1 .. Len(l) + Len(x) : (l \o x)[i] = IF i <= Len(l) THEN l[i] ELSE x[i - Len(l)]
      BY <2>5, ConcatProperties DEF Text
    <3> QED BY <3>1, <3>2, <2>3, <2>6
  <2>8. c # <<>> /\ c[1] = IF 1 <= m THEN l[1] ELSE x[1 - m]
    <3>1. 1 \in 1 .. m + (n + 1) /\ m + (n + 1) # 0
      OBVIOUS
    <3> QED BY <2>7, <3>1
  <2>9. PICK u : u = Append(a, e)
    OBVIOUS
  <2>10. PICK k \in Nat : k = Len(a)
    OBVIOUS
  <2>11. u \in Seq(Piece) /\ u[k + 1] = e /\ \A i \in 1 .. k : u[i] = a[i]
    BY <2>9, <2>10, AppendProperties
  <2>12. c[1] = u[1][1]
    <3>1. CASE a = <<>>
      <4>1. k = 0
        BY <3>1, <2>10
      <4>2. m = 0
        <5>1. l = <<>>
          BY <3>1, <2>2, WrittenGo
        <5> QED BY <5>1, <2>3
      <4> QED BY <4>1, <4>2, <2>5, <2>8, <2>11
    <3>2. CASE a # <<>>
      <4>1. 1 \in 1 .. k
        BY <3>2, <2>10
      <4>2. l # <<>> /\ l[1] = a[1][1]
        BY <3>2, <1>1, <1>3, <2>2
      <4>3. 1 <= m
        BY <4>2, <2>3 DEF Text
      <4> QED BY <4>1, <4>2, <4>3, <2>8, <2>11
    <3> QED BY <3>1, <3>2
  <2>13. Written(u) = c
    BY <2>1, <2>2, <2>4, <2>6, <2>9, WrittenGo
  <2> QED BY <1>1, <2>8, <2>9, <2>11, <2>12, <2>13
<1>4. bs \in T
  BY <1>2, <1>3, Growing
<1> QED BY <1>1, <1>4

\* And without the white space after it it is cut into just the blocks it was
\* written from.
LEMMA BlocksReadBack ==
    ASSUME NEW bs \in Seq(Piece), bs # <<>>,
           ~White(bs[1][1]), bs[1][1].margin = "none", ~White(bs[Len(bs)][Len(bs[Len(bs)])])
    PROVE  /\ Blocks(Trim(Written(bs))) = bs
           /\ Trim(Written(bs)) # <<>> /\ Trim(Written(bs))[1] = bs[1][1]
           /\ Len(Written(bs)) \in Nat
<1>1. PICK a \in Seq(Piece), e \in Piece : bs = Append(a, e)
  BY SequenceEmptyOrAppend
<1>2. PICK k \in Nat : k = Len(a)
  OBVIOUS
<1>3. Len(bs) = k + 1 /\ bs[k + 1] = e
  BY <1>1, <1>2, AppendProperties
<1>4. a \in Seq(Text) /\ e \in Text /\ e \in Seq(Solid) /\ e # <<>> /\ bs \in Seq(Text)
  BY Pieces DEF Piece
<1>5. PICK l \in Text : l = Written(a)
  BY <1>4, WrittenGo
<1>6. PICK c : c = l \o e
  OBVIOUS
<1>7. PICK m \in Nat, n \in Nat \ {0} : m = Len(l) /\ n = Len(e)
  BY <1>4 DEF Text
<1>8. c \in Text /\ Len(c) = m + n
      /\ \A i \in 1 .. m + n : c[i] = IF i <= m THEN l[i] ELSE e[i - m]
  BY <1>4, <1>6, <1>7, ConcatProperties DEF Text
<1>9. PICK d : d = Append(c, Blank)
  OBVIOUS
<1>10. d \in Text /\ Len(d) = m + n + 1 /\ d[m + n + 1] = Blank
       /\ \A i \in 1 .. m + n : d[i] = c[i]
  <2>1. PICK p \in Nat : p = m + n /\ p = Len(c)
    BY <1>8
  <2>2. d \in Text /\ Len(d) = p + 1 /\ d[p + 1] = Blank /\ \A i \in 1 .. p : d[i] = c[i]
    <3>1. c \in Seq(Lines(Word)) /\ Blank \in Lines(Word)
      BY <1>8, BlankLine DEF Text
    <3>2. d \in Seq(Lines(Word)) /\ Len(d) = Len(c) + 1 /\ d[Len(c) + 1] = Blank
          /\ \A i \in 1 .. Len(c) : d[i] = c[i]
      BY <3>1, <1>9, AppendProperties
    <3> QED BY <2>1, <3>2 DEF Text
  <2> QED BY <2>1, <2>2
<1>11. Written(bs) = d
  <2>1. Written(bs) = l \o Append(e, Blank)
    BY <1>1, <1>4, <1>5, WrittenGo
  <2>2. l \o Append(e, Blank) = Append(l \o e, Blank)
    <3>1. l \in Seq(Lines(Word)) /\ e \in Seq(Lines(Word)) /\ Blank \in Lines(Word)
      BY <1>4, BlankLine DEF Text
    <3> QED BY <3>1, ConcatAppend
  <2> QED BY <2>1, <2>2, <1>6, <1>9
<1>12. c[1] = bs[1][1]
  <2>1. d[1] = bs[1][1]
    BY <1>11, WrittenFirst
  <2>2. 1 \in 1 .. m + n
    OBVIOUS
  <2> QED BY <2>1, <2>2, <1>10
<1>13. c[m + n] = e[n]
  <2>1. m + n \in 1 .. m + n /\ ~(m + n <= m) /\ m + n - m = n
    OBVIOUS
  <2> QED BY <2>1, <1>8
<1>14. c # <<>> /\ Bounded(c)
  <2>1. c # <<>>
    BY <1>8
  <2>2. ~White(c[1]) /\ c[1].margin = "none"
    BY <1>12
  <2>3. ~White(c[Len(c)])
    BY <1>3, <1>7, <1>8, <1>13
  <2> QED BY <2>1, <2>2, <2>3 DEF Bounded
<1>15. Trim(d) = c
  <2>1. PICK S : S = Lines(Word)
    OBVIOUS
  <2>2. \A x \in S : Flush(x) \in S
    BY <2>1, FlushLine
  <2>3. S \in SUBSET Lines(Word) /\ d \in Seq(S) /\ c \in Seq(S)
    BY <2>1, <1>8, <1>10 DEF Text
  <2>4. /\ Len(c) <= Len(d) /\ \A i \in 1 .. Len(c) : d[i] = c[i]
    BY <1>8, <1>10
  <2>5. \A i \in Len(c) + 1 .. Len(d) : White(d[i])
    BY <1>8, <1>10, BlankLine
  <2> QED BY <1>14, <2>2, <2>3, <2>4, <2>5, TrimEnds
<1>16. Blocks(c) = bs
  <2>1. Blocks(l) = Append(a, <<>>)
    BY <1>5, BlocksWritten
  <2>2. Blocks(l \o e) = Append(a, e)
    BY <1>4, <2>1, BlocksJoined
  <2> QED BY <2>2, <1>1, <1>6
<1> QED BY <1>11, <1>12, <1>14, <1>15, <1>16

-----------------------------------------------------------------------------
(* Times.                                                                  *)

Time == 0 .. (LastHour + 1) * 3600000 - 1

\* A stamp written is the time it was written for.
LEMMA TimeReadBack ==
    ASSUME NEW t \in Time, NEW format
    PROVE  ParseTime(Timestamp(t, format), format) = t
<1>0. PICK last \in Nat : last = LastHour
  BY SubtitleAssumption
<1>1. t \in Nat /\ t < (last + 1) * 3600000
  BY <1>0, SMT DEF Time
<1>2. PICK a \in Nat, ms \in 0 .. 999 : t = a * 1000 + ms
  <2>1. t \div 1000 \in Nat
    BY <1>1, SMT
  <2>2. t % 1000 \in 0 .. 999
    BY <1>1, SMT
  <2>3. t = (t \div 1000) * 1000 + (t % 1000)
    BY <1>1, SMT
  <2> QED BY <2>1, <2>2, <2>3, SMT
<1>3. PICK b \in Nat, s \in 0 .. 59 : a = b * 60 + s
  <2>1. a \div 60 \in Nat
    BY SMT
  <2>2. a % 60 \in 0 .. 59
    BY SMT
  <2>3. a = (a \div 60) * 60 + (a % 60)
    BY SMT
  <2> QED BY <2>1, <2>2, <2>3, SMT
<1>4. PICK h \in Nat, m \in 0 .. 59 : b = h * 60 + m
  <2>1. b \div 60 \in Nat
    BY SMT
  <2>2. b % 60 \in 0 .. 59
    BY SMT
  <2>3. b = (b \div 60) * 60 + (b % 60)
    BY SMT
  <2> QED BY <2>1, <2>2, <2>3, SMT
<1>5. t % 1000 = ms /\ t \div 1000 = a
  BY <1>2, SMT
<1>6. t \div 60000 = b
  BY <1>2, <1>3, SMT
<1>7. t \div 3600000 = h
  BY <1>2, <1>3, <1>4, SMT
<1>8. b % 60 = m /\ a % 60 = s
  BY <1>3, <1>4, SMT
<1>9. h <= last
  BY <1>1, <1>2, <1>3, <1>4, SMT
<1>10. PICK x : x = Timestamp(t, format)
  OBVIOUS
<1>11. /\ t \div 3600000 = h /\ (t \div 60000) % 60 = m /\ (t \div 1000) % 60 = s
       /\ t % 1000 = ms
  BY <1>5, <1>6, <1>7, <1>8, SMT
<1>12. /\ x.hours = h /\ x.minutes = m /\ x.seconds = s /\ x.ms = ms
       /\ x.mark = Mark(format) /\ ~x.short
  BY <1>10, <1>11, SMT DEF Timestamp, Stamp
<1>13. ParseTime(x, format) = ((h * 60 + m) * 60 + s) * 1000 + ms
  <2>1. m < 60 /\ s < 60 /\ h <= LastHour
    BY <1>0, <1>9
  <2>2. ParseTime(x, format) =
           ((x.hours * 60 + x.minutes) * 60 + x.seconds) * 1000 + x.ms
    <3>1. /\ x.mark = Mark(format) /\ (x.short => format = "vtt")
          /\ x.hours <= LastHour /\ x.minutes < 60 /\ x.seconds < 60
      BY <1>12, <2>1
    <3> QED BY <3>1, ZenonT(30) DEF ParseTime
  <2> QED BY <1>12, <2>2, SMT
<1> QED BY <1>2, <1>3, <1>4, <1>10, <1>13, SMT

\* A time that is read is in the range that is written.
LEMMA TimeRead ==
    ASSUME NEW x \in StampOf, NEW format
    PROVE  ParseTime(x, format) = NoTime \/ ParseTime(x, format) \in Time
<1>0. PICK last \in Nat : last = LastHour
  BY SubtitleAssumption
<1>1. x.hours \in Nat /\ x.minutes \in Nat /\ x.seconds \in Nat /\ x.ms \in 0 .. 999
  BY SMT DEF StampOf
<1>4. PICK h \in Nat : h = x.hours
  BY <1>1
<1>5. PICK m \in Nat : m = x.minutes
  BY <1>1
<1>6. PICK s \in Nat : s = x.seconds
  BY <1>1
<1>7. PICK ms \in 0 .. 999 : ms = x.ms
  BY <1>1
<1>2. PICK t : t = ParseTime(x, format)
  OBVIOUS
<1>3. ASSUME t # NoTime PROVE t \in Time
  <2>1. /\ h <= last /\ m < 60 /\ s < 60 /\ t = ((h * 60 + m) * 60 + s) * 1000 + ms
    BY <1>0, <1>4, <1>5, <1>6, <1>7, <1>2, <1>3, SMT DEF ParseTime
  <2>2. t \in Nat /\ t < (last + 1) * 3600000
    BY <2>1, SMT
  <2> QED BY <1>0, <2>2, SMT DEF Time
<1> QED BY <1>2, <1>3

-----------------------------------------------------------------------------
(* Translations.                                                           *)

\* The normal form of a text has neat lines only, and is the text if it had.
LEMMA CleanNeat ==
    ASSUME NEW text \in Text
    PROVE  CleanText(text) \in Seq(Neat) /\ (text \in Seq(Neat) => CleanText(text) = text)
<1>1. PICK keep : keep = {line \in ToSet(text) : ~Empty(line)}
  OBVIOUS
<1>2. PICK said : said = Only(text, keep)
  OBVIOUS
<1>3. said \in Seq(Lines(Word) \cap keep)
  BY <1>2, OnlyWithin DEF Text
<1>4. PICK n \in Nat : n = Len(said) /\ DOMAIN said = 1 .. n
  BY <1>3
<1>5. \A i \in 1 .. n : said[i] \in Lines(Word) /\ ~Empty(said[i])
  <2>1. \A i \in 1 .. n : said[i] \in Lines(Word) \cap keep
    BY <1>3, <1>4
  <2> QED BY <2>1, <1>1
<1>6. PICK c : c = [i \in 1 .. n |-> TrimSpace(said[i])]
  OBVIOUS
<1>7. CleanText(text) = c
  BY <1>1, <1>2, <1>4, <1>6 DEF CleanText
<1>8. ASSUME NEW i \in 1 .. n PROVE TrimSpace(said[i]) \in Neat
  BY <1>5, TrimSpaceLine DEF Neat, Empty
<1>9. c \in [1 .. n -> Neat]
  BY <1>6, <1>8
<1>10. c \in Seq(Neat) /\ Len(c) = n
  BY <1>9, Listed
<1>11. ASSUME text \in Seq(Neat) PROVE c = text
  <2>1. \A i \in 1 .. Len(text) : text[i] \in keep
    <3>1. ASSUME NEW i \in 1 .. Len(text) PROVE text[i] \in keep
      <4>1. text[i] \in Neat /\ text[i] \in ToSet(text)
        BY <1>11 DEF ToSet
      <4> QED BY <4>1, <1>1 DEF Neat
    <3> QED BY <3>1
  <2>2. said = text
    BY <1>2, <2>1, OnlySame DEF Text
  <2>3. \A i \in 1 .. n : c[i] = text[i]
    <3>1. ASSUME NEW i \in 1 .. n PROVE c[i] = text[i]
      <4>1. text[i] \in Lines(Word) /\ text[i].margin # "wide"
        BY <1>4, <1>11, <2>2 DEF Neat
      <4> QED BY <4>1, <1>6, <2>2, TrimSpaceLine
    <3> QED BY <3>1
  <2> QED BY <1>4, <1>10, <1>11, <2>2, <2>3, SeqEqual
<1> QED BY <1>7, <1>10, <1>11

\* A text of neat lines is tidy, what was trimmed is, and so is what two tidy texts make.
LEMMA NeatTidy ==
    ASSUME NEW t \in Seq(Neat), t # <<>>
    PROVE  Tidy(t)
<1>1. t \in Piece
  BY Solids DEF Piece
<1>2. t[1] \in Neat /\ t[Len(t)] \in Neat
  OBVIOUS
<1> QED BY <1>1, <1>2 DEF Tidy, Neat

LEMMA TidyJoined ==
    ASSUME NEW s, Tidy(s), NEW t, Tidy(t)
    PROVE  Tidy(s \o t)
<1>1. s \in Seq(Solid) /\ t \in Seq(Solid) /\ s # <<>> /\ t # <<>>
  BY DEF Tidy, Piece
<1>2. PICK m \in Nat \ {0}, n \in Nat \ {0} : m = Len(s) /\ n = Len(t)
  BY <1>1
<1>3. PICK c : c = s \o t
  OBVIOUS
<1>4. /\ c \in Seq(Solid) /\ Len(c) = m + n
      /\ \A i \in 1 .. m + n : c[i] = IF i <= m THEN s[i] ELSE t[i - m]
  BY <1>1, <1>2, <1>3, ConcatProperties
<1>5. c[1] = s[1] /\ c[m + n] = t[n] /\ c # <<>>
  <2>1. 1 \in 1 .. m + n /\ m + n \in 1 .. m + n /\ ~(m + n <= m) /\ m + n - m = n /\ 1 <= m
    OBVIOUS
  <2> QED BY <2>1, <1>4
<1>6. c[1] \in Neat /\ ~Empty(c[Len(c)])
  BY <1>2, <1>4, <1>5 DEF Tidy
<1> QED BY <1>3, <1>4, <1>5, <1>6 DEF Tidy, Piece

\* A tidy text is trimmed unless it begins or ends with U+FEFF.
LEMMA TidyTrimmed ==
    ASSUME NEW t, Tidy(t), ~Marked(t)
    PROVE  t \in Trimmed
<1>1. t \in Piece /\ t[1] \in Neat /\ ~Empty(t[Len(t)])
  BY DEF Tidy
<1>2. t[1].kind # "mark" /\ t[Len(t)].kind # "mark" /\ t[1].margin # "mark"
  BY DEF Marked
<1>3. t[1].margin \in Margin
  <2>1. t[1] \in Said \cup Spoken \cup Timed
    BY <1>1, LineKinds DEF Neat
  <2> QED BY <2>1 DEF Said, Spoken, Timed
<1>4. ~White(t[1]) /\ ~White(t[Len(t)]) /\ t[1].margin = "none"
  BY <1>1, <1>2, <1>3 DEF Neat, White, Empty, Margin
<1> QED BY <1>1, <1>4 DEF Trimmed, Bounded

LEMMA TrimmedTidy ==
    ASSUME NEW t \in Trimmed
    PROVE  Tidy(t)
<1>1. t \in Piece /\ Bounded(t)
  BY DEF Trimmed
<1>2. t[1] \in Lines(Word)
  BY <1>1 DEF Piece, Solid
<1> QED BY <1>1, <1>2 DEF Tidy, Bounded, Neat, White, Empty

-----------------------------------------------------------------------------
(* A file that is read.                                                    *)

\* A line before the time, which is a number in SRT files; there may be none in VTT.
Named(name, format) ==
    IF name = <<>> THEN format = "vtt"
    ELSE /\ Len(name) = 1 /\ ~White(name[1]) /\ name[1].margin = "none"
         /\ IF format = "srt" THEN name[1].kind = "number" ELSE name[1].kind # "timing"

Cue == [identifier : Seq(Solid), start : Time, end : Time, settings : Seq(STRING), text : Trimmed]
CueOf(format) ==
    {c \in Cue : c.start <= c.end /\ Len(c.text) <= SourceLimit /\ Named(c.identifier, format)}
Metadatum == [before : Nat, text : {b \in Piece : IsMetadata(b)}]
Document == [format : Format, header : Seq(Solid), metadata : Seq(Metadatum), cues : Seq(Cue)]

\* A document that was read: its metadata is in order, and so is its header.
Sound(d) ==
    /\ d \in Document
    /\ d.cues \in Seq(CueOf(d.format))
    /\ \A i \in 1 .. Len(d.metadata) : d.metadata[i].before <= Len(d.cues)
    /\ \A i, k \in 1 .. Len(d.metadata) : i < k => d.metadata[i].before <= d.metadata[k].before
    /\ IF d.format = "vtt"
       THEN d.header \in Piece /\ d.header[1].kind = "webvtt" /\ d.header[1].margin = "none"
       ELSE d.header = <<>> /\ d.metadata = <<>>

\* Metadata after the last cue ends with something.
Ended(d) ==
    LET n == Len(d.metadata)
        text == d.metadata[n].text
    IN  n # 0 /\ d.metadata[n].before = Len(d.cues) => ~White(text[Len(text)])

\* One line without the white space around it.
LEMMA TrimOne ==
    ASSUME NEW x \in Solid
    PROVE  Trim(<<x>>) = IF White(x) THEN <<>> ELSE <<Flush(x)>>
<1>1. PICK one \in Seq(Solid) : one = <<x>> /\ Len(one) = 1 /\ one[1] = x
  <2>1. <<x>> \in Seq(Solid) /\ Len(<<x>>) = 1 /\ <<x>>[1] = x
    OBVIOUS
  <2> QED BY <2>1
<1>2. CASE White(x)
  <2>1. \A i \in 1 .. Len(one) : White(one[i])
    BY <1>1, <1>2
  <2>2. Trim(one) = <<>>
    BY <2>1, TrimNothing
  <2> QED BY <1>1, <1>2, <2>2
<1>3. CASE ~White(x)
  <2>1. \E i \in 1 .. Len(one) : ~White(one[i])
    BY <1>1, <1>3
  <2>2. Solid \in SUBSET Lines(Word) /\ \A y \in Solid : Flush(y) \in Solid
    BY Solids
  <2>3. PICK c, d \in 1 .. Len(one) :
           /\ c <= d /\ Trim(one) \in Seq(Solid) /\ Len(Trim(one)) = d - c + 1
           /\ Trim(one)[1] = Flush(one[c])
    BY <2>1, <2>2, TrimParts
  <2>4. c = 1 /\ d = 1
    BY <1>1, <2>3
  <2>5. PICK t \in Seq(Solid) : t = Trim(one)
    BY <2>3
  <2>6. Len(t) = 1 /\ t[1] = Flush(x)
    BY <1>1, <2>3, <2>4, <2>5
  <2>7. t = <<Flush(x)>>
    BY <2>6
  <2> QED BY <1>1, <1>3, <2>5, <2>7
<1> QED BY <1>2, <1>3

\* A cue that is not refused has times, a text and a name that can be written.
LEMMA CueRead ==
    ASSUME NEW block \in Piece, NEW format \in Format, CueValid(block, format)
    PROVE  ParseCue(block, format) \in CueOf(format)
<1>0. PICK n \in Nat \ {0} : n = Len(block) /\ DOMAIN block = 1 .. n
  BY DEF Piece
<1>1. PICK at \in 1 .. 2 : at = TimingIndex(block) /\ at < n
  BY <1>0 DEF TimingIndex, CueValid
<1>2. PICK cue : cue = ParseCue(block, format)
  OBVIOUS
<1>3. cue = [identifier |-> IF at = 1 THEN <<>> ELSE Trim(<<block[1]>>),
             start |-> ParseTime(block[at].start, format),
             end |-> ParseTime(block[at].end, format),
             settings |-> block[at].settings,
             text |-> Trim(SubSeq(block, at + 1, n))]
  BY <1>0, <1>1, <1>2 DEF ParseCue
<1>4. /\ cue.identifier = IF at = 1 THEN <<>> ELSE Trim(<<block[1]>>)
      /\ cue.start = ParseTime(block[at].start, format)
      /\ cue.end = ParseTime(block[at].end, format)
      /\ cue.settings = block[at].settings
      /\ cue.text = Trim(SubSeq(block, at + 1, n))
      /\ cue = [identifier |-> cue.identifier, start |-> cue.start, end |-> cue.end,
                settings |-> cue.settings, text |-> cue.text]
  BY <1>3
<1>5. /\ cue.start # NoTime /\ cue.end >= cue.start /\ Len(cue.text) \in 1 .. SourceLimit
      /\ block[at].kind = "timing" /\ (format = "srt" => block[1].kind = "number")
  BY <1>1, <1>2 DEF CueValid
<1>6. block[1] \in Solid /\ block[at] \in Solid
  BY <1>0, <1>1 DEF Piece
<1>7. cue.start \in Time /\ cue.end \in Time /\ cue.start <= cue.end /\ cue.settings \in Seq(STRING)
  <2>1. PICK line \in Timed : line = block[at]
    <3>1. block[at] \in Lines(Word)
      BY <1>6 DEF Solid
    <3> QED BY <3>1, <1>5, LineKinds DEF Said, Spoken
  <2>2. line.start \in StampOf /\ line.end \in StampOf /\ line.settings \in Seq(STRING)
    BY DEF Timed
  <2>3. cue.start \in Time
    BY <2>1, <2>2, <1>4, <1>5, TimeRead
  <2>4. cue.end = NoTime \/ cue.end \in Time
    BY <2>1, <2>2, <1>4, TimeRead
  <2>5. cue.start \in Int /\ cue.start >= 0
    BY <2>3, SMT DEF Time
  <2>6. cue.end # NoTime
    BY <2>5, <1>5, SMT DEF NoTime
  <2>7. cue.end \in Time
    BY <2>4, <2>6
  <2>8. cue.end \in Int
    BY <2>7, SMT DEF Time
  <2> QED BY <2>1, <2>2, <2>3, <2>5, <2>7, <2>8, <1>4, <1>5
<1>8. cue.text \in Trimmed /\ Len(cue.text) <= SourceLimit
  <2>1. PICK S : S = Solid
    OBVIOUS
  <2>2. \A i \in at + 1 .. n : block[i] \in S
    BY <2>1, <1>0, <1>1 DEF Piece
  <2>3. SubSeq(block, at + 1, n) \in Seq(S)
    BY <2>2, <1>1, SubSeqProperties
  <2>4. S \in SUBSET Lines(Word) /\ \A x \in S : Flush(x) \in S
    BY <2>1, Solids
  <2>5. cue.text \in Seq(S) /\ (cue.text # <<>> => Bounded(cue.text))
    BY <2>3, <2>4, <1>4, TrimKeeps
  <2>6. cue.text # <<>> /\ Len(cue.text) <= SourceLimit
    BY <1>5, SubtitleAssumption
  <2> QED BY <2>1, <2>5, <2>6 DEF Trimmed, Piece
<1>9. cue.identifier \in Seq(Solid) /\ Named(cue.identifier, format)
  <2>1. CASE at = 1
    <3>1. block[1].kind = "timing"
      BY <2>1, <1>5
    <3>2. cue.identifier = <<>> /\ format = "vtt"
      BY <2>1, <3>1, <1>4, <1>5 DEF Format
    <3> QED BY <3>2, EmptySeq DEF Named
  <2>2. CASE at = 2
    <3>1. block[1].kind # "timing"
      BY <2>2, <1>1 DEF TimingIndex
    <3>2. cue.identifier = IF White(block[1]) THEN <<>> ELSE <<Flush(block[1])>>
      BY <2>2, <1>4, <1>6, TrimOne
    <3>3. CASE White(block[1])
      <4>1. format = "vtt"
        BY <3>3, <1>5 DEF White, Format
      <4> QED BY <4>1, <3>2, <3>3, EmptySeq DEF Named
    <3>4. CASE ~White(block[1])
      <4>1. PICK x \in Solid : x = Flush(block[1])
        BY <1>6, Solids
      <4>2. x.kind = block[1].kind /\ x.margin = "none"
        BY <4>1, <1>6, FlushLine DEF Solid
      <4>3. cue.identifier = <<x>>
        BY <3>2, <3>4, <4>1
      <4>4. PICK name \in Seq(Solid) : name = <<x>> /\ Len(name) = 1 /\ name[1] = x /\ name # <<>>
        <5>1. <<x>> \in Seq(Solid) /\ Len(<<x>>) = 1 /\ <<x>>[1] = x /\ <<x>> # <<>>
          OBVIOUS
        <5> QED BY <5>1
      <4>5. ~White(x)
        BY <3>4, <4>2 DEF White
      <4>6. Named(name, format)
        BY <4>2, <4>4, <4>5, <3>1, <1>5 DEF Named
      <4> QED BY <4>3, <4>4, <4>6
    <3> QED BY <3>3, <3>4
  <2> QED BY <2>1, <2>2
<1>10. cue \in Cue
  BY <1>4, <1>7, <1>8, <1>9 DEF Cue
<1> QED BY <1>2, <1>7, <1>8, <1>9, <1>10 DEF CueOf

\* A block that may stand in a file.
Allowed(block, format) ==
    \/ Void(block)
    \/ format = "vtt" /\ IsMetadata(block)
    \/ CueValid(block, format)

\* What is read of a document and one block more.
LEMMA BlockRead ==
    ASSUME NEW d, Sound(d), NEW block \in Piece, Allowed(block, d.format)
    PROVE  LET e == ParseBlock(d, block)
           IN  /\ Sound(e) /\ e.format = d.format /\ e.header = d.header
               /\ ~White(block[Len(block)]) => Ended(e)
<1> DEFINE e == ParseBlock(d, block)
<1>1. /\ d \in Document /\ d.format \in Format /\ d.header \in Seq(Solid)
      /\ d.metadata \in Seq(Metadatum) /\ d.cues \in Seq(Cue)
      /\ d.cues \in Seq(CueOf(d.format))
  BY DEF Sound, Document
<1>2. PICK m \in Nat, n \in Nat : m = Len(d.metadata) /\ n = Len(d.cues)
  BY <1>1
<1>3. PICK ms \in Seq(Metadatum) : ms = d.metadata
  BY <1>1
<1>4. /\ \A i \in 1 .. m : ms[i].before <= n /\ ms[i].before \in Nat
      /\ \A i, k \in 1 .. m : i < k => ms[i].before <= ms[k].before
  <2>1. \A i \in 1 .. m : ms[i] \in Metadatum
    BY <1>2, <1>3
  <2> QED BY <2>1, <1>2, <1>3 DEF Sound, Metadatum
<1>5. CASE Void(block)
  <2>1. e = d
    BY <1>5 DEF ParseBlock
  <2>2. White(block[Len(block)])
    <3>1. Len(block) \in DOMAIN block
      BY DEF Piece
    <3> QED BY <3>1, <1>5 DEF Void
  <2> QED BY <2>1, <2>2
<1>6. CASE ~Void(block) /\ d.format = "vtt" /\ IsMetadata(block)
  <2>1. PICK x : x = [before |-> n, text |-> block]
    OBVIOUS
  <2>2. x \in Metadatum /\ x.before = n /\ x.text = block
    BY <2>1, <1>6 DEF Metadatum
  <2>3. PICK ns : ns = Append(ms, x)
    OBVIOUS
  <2>4. /\ ns \in Seq(Metadatum) /\ Len(ns) = m + 1 /\ ns[m + 1] = x
        /\ \A i \in 1 .. m : ns[i] = ms[i]
    BY <2>2, <2>3, <1>2, <1>3, AppendProperties
  <2>5. e = [d EXCEPT !.metadata = ns]
    BY <1>2, <1>3, <1>6, <2>1, <2>3 DEF ParseBlock
  <2>6. /\ e \in Document /\ e.format = d.format /\ e.header = d.header /\ e.cues = d.cues
        /\ e.metadata = ns
    BY <2>4, <2>5, <1>1 DEF Document
  <2>7. \A i \in 1 .. m + 1 : ns[i].before <= n
    <3>1. ASSUME NEW i \in 1 .. m + 1 PROVE ns[i].before <= n
      <4>1. CASE i = m + 1
        BY <4>1, <2>2, <2>4
      <4>2. CASE i # m + 1
        <5>1. i \in 1 .. m
          BY <4>2
        <5> QED BY <5>1, <2>4, <1>4
      <4> QED BY <4>1, <4>2
    <3> QED BY <3>1
  <2>8. \A i, k \in 1 .. m + 1 : i < k => ns[i].before <= ns[k].before
    <3>1. ASSUME NEW i \in 1 .. m + 1, NEW k \in 1 .. m + 1, i < k
          PROVE  ns[i].before <= ns[k].before
      <4>1. i \in 1 .. m
        BY <3>1
      <4>2. CASE k = m + 1
        <5>1. ns[i].before <= n
          BY <2>7
        <5>2. ns[k].before = n
          BY <4>2, <2>2, <2>4
        <5> QED BY <5>1, <5>2
      <4>3. CASE k # m + 1
        <5>1. k \in 1 .. m
          BY <4>3
        <5> QED BY <4>1, <5>1, <3>1, <2>4, <1>4
      <4> QED BY <4>2, <4>3
    <3> QED BY <3>1
  <2>9. Sound(e)
    <3>1. d.header \in Piece /\ d.header[1].kind = "webvtt" /\ d.header[1].margin = "none"
      BY <1>6 DEF Sound
    <3> QED BY <3>1, <2>4, <2>6, <2>7, <2>8, <1>1, <1>2, <1>6 DEF Sound
  <2>10. ~White(block[Len(block)]) => Ended(e)
    BY <2>2, <2>4, <2>6 DEF Ended
  <2> QED BY <2>6, <2>9, <2>10
<1>7. CASE ~Void(block) /\ ~(d.format = "vtt" /\ IsMetadata(block))
  <2>1. CueValid(block, d.format)
    BY <1>7 DEF Allowed
  <2>2. PICK x \in CueOf(d.format) : x = ParseCue(block, d.format)
    BY <2>1, <1>1, CueRead
  <2>3. PICK cs \in Seq(CueOf(d.format)) : cs = d.cues
    BY <1>1
  <2>4. PICK ds : ds = Append(cs, x)
    OBVIOUS
  <2>5. ds \in Seq(CueOf(d.format)) /\ Len(ds) = n + 1
    BY <2>3, <2>4, <1>2, AppendProperties
  <2>6. ds \in Seq(Cue)
    <3>1. CueOf(d.format) \subseteq Cue
      BY DEF CueOf
    <3> QED BY <2>5, <3>1, SeqMonotonic
  <2>7. e = [d EXCEPT !.cues = ds]
    BY <1>7, <2>2, <2>3, <2>4 DEF ParseBlock
  <2>8. /\ e \in Document /\ e.format = d.format /\ e.header = d.header /\ e.cues = ds
        /\ e.metadata = ms
    BY <2>6, <2>7, <1>1, <1>3 DEF Document
  <2>9. \A i \in 1 .. m : ms[i].before <= n + 1 /\ ms[i].before # n + 1
    BY <1>4
  <2>10. Sound(e)
    <3>1. \A i \in 1 .. Len(e.metadata) : e.metadata[i].before <= Len(e.cues)
      BY <2>5, <2>8, <2>9, <1>2, <1>3
    <3>2. \A i, k \in 1 .. Len(e.metadata) : i < k => e.metadata[i].before <= e.metadata[k].before
      BY <2>8, <1>2, <1>3, <1>4
    <3>3. IF d.format = "vtt"
          THEN d.header \in Piece /\ d.header[1].kind = "webvtt" /\ d.header[1].margin = "none"
          ELSE d.header = <<>> /\ d.metadata = <<>>
      BY DEF Sound
    <3> QED BY <2>5, <2>8, <3>1, <3>2, <3>3, <1>3 DEF Sound
  <2>11. Ended(e)
    <3>1. Len(e.metadata) = m /\ Len(e.cues) = n + 1
      BY <2>5, <2>8, <1>2, <1>3
    <3>2. m # 0 => ms[m].before # n + 1
      <4>1. m # 0 => m \in 1 .. m
        OBVIOUS
      <4> QED BY <4>1, <2>9
    <3> QED BY <3>1, <3>2, <2>8 DEF Ended
  <2> QED BY <2>8, <2>10, <2>11
<1> QED BY <1>5, <1>6, <1>7

\* Reading the blocks body makes d of b; h[i] is what is read after the first i.
Reads(b, body, d) ==
    \E h : /\ h[0] = b /\ h[Len(body)] = d
           /\ \A i \in 1 .. Len(body) : h[i] = ParseBlock(h[i - 1], body[i])

LEMMA ReadsGo ==
    ASSUME NEW S, NEW b
    PROVE  /\ Reads(b, <<>>, b)
           /\ \A a \in Seq(S), e \in S : \A d :
                 Reads(b, a, d) => Reads(b, Append(a, e), ParseBlock(d, e))
<1>1. Reads(b, <<>>, b)
  <2>1. PICK h : h = [i \in 0 .. 0 |-> b]
    OBVIOUS
  <2>2. PICK a \in Seq(S) : a = <<>> /\ Len(a) = 0
    BY EmptySeq
  <2>3. h[0] = b
    BY <2>1
  <2>4. Reads(b, a, b)
    BY <2>2, <2>3 DEF Reads
  <2> QED BY <2>2, <2>4
<1>2. ASSUME NEW a \in Seq(S), NEW e \in S, NEW d, Reads(b, a, d)
      PROVE  Reads(b, Append(a, e), ParseBlock(d, e))
  <2>1. PICK n \in Nat : n = Len(a)
    OBVIOUS
  <2>2. PICK h : /\ h[0] = b /\ h[n] = d /\ \A i \in 1 .. n : h[i] = ParseBlock(h[i - 1], a[i])
    BY <1>2, <2>1 DEF Reads
  <2>3. PICK u : u = Append(a, e)
    OBVIOUS
  <2>4. u \in Seq(S) /\ Len(u) = n + 1 /\ u[n + 1] = e /\ \A i \in 1 .. n : u[i] = a[i]
    BY <2>1, <2>3, AppendProperties
  <2>5. PICK g : g = [i \in 0 .. n + 1 |-> IF i = n + 1 THEN ParseBlock(d, e) ELSE h[i]]
    OBVIOUS
  <2>6. g[n + 1] = ParseBlock(d, e) /\ \A i \in 0 .. n : g[i] = h[i]
    BY <2>5
  <2>7. ASSUME NEW i \in 1 .. n + 1 PROVE g[i] = ParseBlock(g[i - 1], u[i])
    <3>1. CASE i = n + 1
      <4>1. i - 1 = n /\ n \in 0 .. n
        BY <3>1
      <4> QED BY <4>1, <3>1, <2>2, <2>4, <2>6
    <3>2. CASE i # n + 1
      <4>1. i \in 0 .. n /\ i - 1 \in 0 .. n /\ i \in 1 .. n
        BY <3>2
      <4> QED BY <4>1, <2>2, <2>4, <2>6
    <3> QED BY <3>1, <3>2
  <2>8. g[0] = b
    <3>1. 0 \in 0 .. n
      OBVIOUS
    <3> QED BY <3>1, <2>2, <2>6
  <2>9. Reads(b, u, ParseBlock(d, e))
    BY <2>4, <2>6, <2>7, <2>8 DEF Reads
  <2> QED BY <2>3, <2>9
<1> QED BY <1>1, <1>2

\* One list of blocks after another.
LEMMA ReadsOn ==
    ASSUME NEW S, NEW a \in Seq(S), NEW c \in Seq(S), NEW b, NEW d, NEW e,
           Reads(b, a, d), Reads(d, c, e)
    PROVE  Reads(b, a \o c, e)
<1>1. PICK m \in Nat, n \in Nat : m = Len(a) /\ n = Len(c)
  OBVIOUS
<1>2. PICK h : /\ h[0] = b /\ h[m] = d /\ \A i \in 1 .. m : h[i] = ParseBlock(h[i - 1], a[i])
  BY <1>1 DEF Reads
<1>3. PICK k : /\ k[0] = d /\ k[n] = e /\ \A i \in 1 .. n : k[i] = ParseBlock(k[i - 1], c[i])
  BY <1>1 DEF Reads
<1>4. PICK u : u = a \o c
  OBVIOUS
<1>5. u \in Seq(S) /\ Len(u) = m + n
      /\ \A i \in 1 .. m + n : u[i] = IF i <= m THEN a[i] ELSE c[i - m]
  BY <1>1, <1>4, ConcatProperties
<1>6. PICK g : g = [i \in 0 .. m + n |-> IF i <= m THEN h[i] ELSE k[i - m]]
  OBVIOUS
<1>7. ASSUME NEW i \in 1 .. m + n PROVE g[i] = ParseBlock(g[i - 1], u[i])
  <2>1. i \in 0 .. m + n /\ i - 1 \in 0 .. m + n
    OBVIOUS
  <2>2. CASE i <= m
    <3>1. i \in 1 .. m /\ i - 1 <= m
      BY <2>2
    <3> QED BY <2>1, <2>2, <3>1, <1>2, <1>5, <1>6
  <2>3. CASE i > m
    <3>1. PICK j \in 1 .. n : j = i - m
      BY <2>3
    <3>2. ~(i <= m) /\ j - 1 = (i - 1) - m
      BY <2>3, <3>1
    <3>3. g[i] = k[j] /\ u[i] = c[j]
      BY <2>1, <3>1, <3>2, <1>5, <1>6
    <3>4. g[i - 1] = k[j - 1]
      <4>1. CASE j = 1
        <5>1. i - 1 = m /\ j - 1 = 0
          BY <4>1, <3>1
        <5> QED BY <5>1, <2>1, <1>2, <1>3, <1>6
      <4>2. CASE j # 1
        <5>1. ~(i - 1 <= m)
          BY <4>2, <3>1
        <5> QED BY <5>1, <3>2, <2>1, <1>6
      <4> QED BY <4>1, <4>2
    <3> QED BY <3>3, <3>4, <1>3
  <2> QED BY <2>2, <2>3
<1>8. g[0] = b
  <2>1. 0 \in 0 .. m + n /\ 0 <= m
    OBVIOUS
  <2> QED BY <2>1, <1>2, <1>6
<1>9. g[m + n] = e
  <2>1. m + n \in 0 .. m + n /\ (m + n) - m = n
    OBVIOUS
  <2>2. CASE n = 0
    BY <2>1, <2>2, <1>2, <1>3, <1>6
  <2>3. CASE n # 0
    <3>1. ~(m + n <= m)
      BY <2>3
    <3> QED BY <2>1, <3>1, <1>3, <1>6
  <2> QED BY <2>2, <2>3
<1> QED BY <1>4, <1>5, <1>7, <1>8, <1>9 DEF Reads

\* What a file is before its body is read.
Start(file) ==
    [format |-> file.format,
     header |-> IF file.format = "vtt" THEN Head(Blocks(Trim(file.lines))) ELSE <<>>,
     metadata |-> <<>>, cues |-> <<>>]

LEMMA ParseReads ==
    ASSUME NEW file, NEW S, Body(file) \in Seq(S), NEW d, Reads(Start(file), Body(file), d)
    PROVE  ParseSubtitle(file) = d
<1>0. PICK body \in Seq(S) : body = Body(file)
  OBVIOUS
<1>1. PICK n \in Nat : n = Len(body)
  OBVIOUS
<1>2. PICK b : b = Start(file)
  OBVIOUS
<1>3. PICK h : h[0] = b /\ h[n] = d /\ \A i \in 1 .. n : h[i] = ParseBlock(h[i - 1], body[i])
  BY <1>0, <1>1, <1>2 DEF Reads
<1> DEFINE F(f) == [i \in 0 .. n |-> IF i = 0 THEN b ELSE ParseBlock(f[i - 1], body[i])]
           read == CHOOSE f : f = F(f)
<1>4. PICK g : g = [i \in 0 .. n |-> h[i]]
  OBVIOUS
<1>5. \A i \in 0 .. n : g[i] = h[i]
  BY <1>4
<1>6. g = F(g)
  <2>1. ASSUME NEW i \in 0 .. n
        PROVE  g[i] = IF i = 0 THEN b ELSE ParseBlock(g[i - 1], body[i])
    <3>1. CASE i = 0
      BY <3>1, <1>3, <1>5
    <3>2. CASE i # 0
      <4>1. i \in 1 .. n /\ i - 1 \in 0 .. n
        BY <3>2
      <4> QED BY <3>2, <4>1, <1>3, <1>5
    <3> QED BY <3>1, <3>2
  <2>2. [i \in 0 .. n |-> g[i]] = F(g)
    BY <2>1
  <2>3. g = [i \in 0 .. n |-> g[i]]
    BY <1>4
  <2> QED BY <2>2, <2>3
<1>7. read = F(read)
  BY <1>6
<1>8. ParseSubtitle(file) = read[n]
  BY <1>0, <1>1, <1>2 DEF ParseSubtitle, Start
<1>9. PICK k : k = read
  OBVIOUS
<1>10. k[0] = b /\ \A i \in 1 .. n : k[i] = ParseBlock(k[i - 1], body[i])
  <2>1. k = F(k)
    BY <1>7, <1>9
  <2>2. \A i \in 0 .. n : k[i] = IF i = 0 THEN b ELSE ParseBlock(k[i - 1], body[i])
    BY <2>1
  <2> QED BY <2>2
<1> HIDE DEF read
<1>11. \A i \in 0 .. n : k[i] = h[i]
  <2>1. PICK W : W = [i \in 0 .. n |-> {h[i]}]
    OBVIOUS
  <2>2. k[0] \in W[0]
    BY <2>1, <1>3, <1>10
  <2>3. ASSUME NEW i \in 1 .. n, k[i - 1] \in W[i - 1] PROVE k[i] \in W[i]
    <3>1. i \in 0 .. n /\ i - 1 \in 0 .. n
      OBVIOUS
    <3> QED BY <3>1, <2>1, <2>3, <1>3, <1>10
  <2>4. \A i \in 0 .. n : k[i] \in W[i]
    BY <2>2, <2>3, Along
  <2> QED BY <2>1, <2>4
<1>12. n \in 0 .. n
  OBVIOUS
<1> QED BY <1>3, <1>8, <1>9, <1>11, <1>12

\* Blocks that may stand in a file make a sound document, which ends well if they do.
LEMMA BodyRead ==
    ASSUME NEW b, Sound(b), Ended(b), NEW body \in Seq(Piece),
           \A i \in 1 .. Len(body) : Allowed(body[i], b.format)
    PROVE  \E d : /\ Reads(b, body, d) /\ Sound(d) /\ d.format = b.format /\ d.header = b.header
                  /\ body = <<>> \/ ~White(body[Len(body)][Len(body[Len(body)])]) => Ended(d)
<1>1. PICK S : S = {p \in Piece : Allowed(p, b.format)}
  OBVIOUS
<1>2. body \in Seq(S)
  <2>1. PICK n \in Nat : n = Len(body) /\ DOMAIN body = 1 .. n
    OBVIOUS
  <2>2. \A i \in 1 .. n : body[i] \in S
    BY <1>1, <2>1
  <2>3. body \in [1 .. n -> S]
    <3>1. body = [i \in 1 .. n |-> body[i]]
      BY <2>1
    <3> QED BY <2>2, <3>1
  <2> QED BY <2>3, Listed
<1> DEFINE Fine(a, d) ==
      /\ Reads(b, a, d) /\ Sound(d) /\ d.format = b.format /\ d.header = b.header
      /\ a = <<>> \/ ~White(a[Len(a)][Len(a[Len(a)])]) => Ended(d)
<1>3. PICK T : T = {a \in Seq(S) : \E d : Fine(a, d)}
  OBVIOUS
<1>4. <<>> \in T
  <2>1. PICK a \in Seq(S) : a = <<>>
    BY EmptySeq
  <2>2. Reads(b, <<>>, b)
    BY ReadsGo
  <2>3. Fine(a, b)
    BY <2>1, <2>2
  <2> QED BY <1>3, <2>1, <2>3
<1>5. ASSUME NEW a \in Seq(S), NEW e \in S, a \in T PROVE Append(a, e) \in T
  <2>1. PICK d : Fine(a, d)
    BY <1>3, <1>5
  <2>2. PICK n \in Nat : n = Len(a)
    OBVIOUS
  <2>3. PICK u : u = Append(a, e)
    OBVIOUS
  <2>4. u \in Seq(S) /\ Len(u) = n + 1 /\ u[n + 1] = e
    BY <2>2, <2>3, AppendProperties
  <2>5. PICK f : f = ParseBlock(d, e)
    OBVIOUS
  <2>6. Reads(b, u, f)
    BY <2>1, <2>3, <2>5, ReadsGo
  <2>7. e \in Piece /\ Allowed(e, d.format)
    BY <1>1, <2>1
  <2>8. /\ Sound(f) /\ f.format = d.format /\ f.header = d.header
        /\ ~White(e[Len(e)]) => Ended(f)
    BY <2>1, <2>5, <2>7, BlockRead
  <2>9. u # <<>> /\ u[Len(u)] = e
    BY <2>4
  <2>10. Fine(u, f)
    BY <2>1, <2>6, <2>8, <2>9
  <2> QED BY <1>3, <2>3, <2>4, <2>10
<1>6. body \in T
  BY <1>2, <1>4, <1>5, Growing
<1> QED BY <1>3, <1>6

\* The blocks of a file.
LEMMA FileBlocks ==
    ASSUME NEW lines \in Text, Trim(lines) # <<>>
    PROVE  \E bs \in Seq(Piece) :
              /\ bs = Blocks(Trim(lines)) /\ bs # <<>> /\ bs[1][1] = Trim(lines)[1]
              /\ bs[1][1].margin = "none"
              /\ ~White(bs[Len(bs)][Len(bs[Len(bs)])])
<1>1. PICK S : S = Lines(Word)
  OBVIOUS
<1>2. \A x \in S : Flush(x) \in S
  BY <1>1, FlushLine
<1>3. S \in SUBSET Lines(Word) /\ lines \in Seq(S)
  BY <1>1 DEF Text
<1>4. Trim(lines) \in Seq(S) /\ (Trim(lines) # <<>> => Bounded(Trim(lines)))
  BY <1>2, <1>3, TrimKeeps
<1>5. PICK t \in Text : t = Trim(lines) /\ t # <<>> /\ Bounded(t)
  BY <1>1, <1>4 DEF Text
<1>6. ~White(t[1]) /\ t[1].margin = "none" /\ ~White(t[Len(t)])
  BY <1>5 DEF Bounded
<1>7. \E bs \in Seq(Piece) :
         /\ bs = Blocks(t) /\ bs # <<>> /\ bs[1][1] = t[1]
         /\ ~White(bs[Len(bs)][Len(bs[Len(bs)])])
  BY <1>5, <1>6, BlocksShape
<1> QED BY <1>5, <1>6, <1>7

\* The document of a file that is not refused is sound.
LEMMA DocumentRead ==
    ASSUME NEW file, file.format \in Format, file.lines \in Text, Readable(file)
    PROVE  /\ Sound(ParseSubtitle(file)) /\ Ended(ParseSubtitle(file))
           /\ ParseSubtitle(file).cues # <<>> /\ Len(ParseSubtitle(file).cues) <= CueLimit
<1>1. PICK bs \in Seq(Piece) :
         /\ bs = Blocks(Trim(file.lines)) /\ bs # <<>> /\ bs[1][1] = Trim(file.lines)[1]
         /\ bs[1][1].margin = "none"
         /\ ~White(bs[Len(bs)][Len(bs[Len(bs)])])
  BY FileBlocks DEF Readable
<1>2. PICK body \in Seq(Piece) :
         /\ body = Body(file)
         /\ body = <<>> \/ ~White(body[Len(body)][Len(body[Len(body)])])
  <2>1. CASE file.format # "vtt"
    BY <1>1, <2>1 DEF Body
  <2>2. CASE file.format = "vtt"
    <3>1. PICK t : t = Tail(bs)
      OBVIOUS
    <3>2. PICK n \in Nat \ {0} : n = Len(bs)
      BY <1>1
    <3>3. t \in Seq(Piece) /\ Len(t) = n - 1 /\ \A i \in 1 .. n - 1 : t[i] = bs[i + 1]
      <4>1. t \in Seq(Piece) /\ Len(t) = Len(bs) - 1 /\ \A i \in 1 .. Len(t) : t[i] = bs[i + 1]
        BY <1>1, <3>1, HeadTailProperties
      <4> QED BY <3>2, <4>1
    <3>4. Body(file) = t
      BY <1>1, <2>2, <3>1 DEF Body
    <3>5. t # <<>> => t[Len(t)] = bs[Len(bs)]
      <4>1. t # <<>> => n - 1 \in 1 .. n - 1 /\ (n - 1) + 1 = n
        BY <3>2, <3>3
      <4> QED BY <4>1, <3>2, <3>3
    <3> QED BY <1>1, <3>3, <3>4, <3>5
  <2> QED BY <2>1, <2>2
<1>3. PICK b : b = Start(file)
  OBVIOUS
<1>4. Sound(b) /\ Ended(b) /\ b.format = file.format
  <2>1. b.format = file.format /\ b.cues = <<>> /\ b.metadata = <<>>
        /\ b.header = IF file.format = "vtt" THEN bs[1] ELSE <<>>
    <3>1. Head(bs) = bs[1]
      BY <1>1
    <3> QED BY <1>1, <1>3, <3>1 DEF Start
  <2>2. b \in Document
    <3>1. <<>> \in Seq(Metadatum) /\ <<>> \in Seq(Cue) /\ <<>> \in Seq(Solid)
      BY EmptySeq
    <3>2. bs[1] \in Seq(Solid)
      BY <1>1 DEF Piece
    <3>3. b = [format |-> b.format, header |-> b.header, metadata |-> b.metadata, cues |-> b.cues]
      BY <1>3 DEF Start
    <3>4. b.header \in Seq(Solid)
      BY <2>1, <3>1, <3>2
    <3> QED BY <2>1, <3>1, <3>3, <3>4 DEF Document
  <2>3. Len(b.metadata) = 0
    BY <2>1
  <2>4. Ended(b)
    BY <2>3 DEF Ended
  <2>5. b.cues \in Seq(CueOf(b.format))
    BY <2>1, EmptySeq
  <2>6. IF b.format = "vtt"
        THEN b.header \in Piece /\ b.header[1].kind = "webvtt" /\ b.header[1].margin = "none"
        ELSE b.header = <<>> /\ b.metadata = <<>>
    <3>1. file.format = "vtt" => bs[1][1].kind = "webvtt"
      BY <1>1 DEF Readable
    <3>2. bs[1] \in Piece
      BY <1>1
    <3> QED BY <1>1, <2>1, <3>1, <3>2
  <2>7. Sound(b)
    BY <2>2, <2>3, <2>5, <2>6 DEF Sound
  <2> QED BY <2>1, <2>4, <2>7
<1>5. \A i \in 1 .. Len(body) : Allowed(body[i], b.format)
  <2>1. ASSUME NEW i \in 1 .. Len(body) PROVE Allowed(body[i], b.format)
    <3>1. body[i] \in ToSet(body)
      BY DEF ToSet
    <3> QED BY <3>1, <1>2, <1>4 DEF Readable, Allowed
  <2> QED BY <2>1
<1>6. PICK d : /\ Reads(b, body, d) /\ Sound(d)
               /\ body = <<>> \/ ~White(body[Len(body)][Len(body[Len(body)])]) => Ended(d)
  BY <1>4, <1>5, BodyRead
<1>7. ParseSubtitle(file) = d
  BY <1>2, <1>3, <1>6, ParseReads
<1>8. d.cues # <<>> /\ Len(d.cues) <= CueLimit
  <2>1. d.cues \in Seq(Cue)
    BY <1>6 DEF Sound, Document
  <2>2. Len(d.cues) \in 1 .. CueLimit
    BY <1>7 DEF Readable
  <2> QED BY <2>1, <2>2
<1> QED BY <1>2, <1>6, <1>7, <1>8

-----------------------------------------------------------------------------
(* Metadata.                                                               *)

\* The metadata before the cue after the first n, and before those.
Here(md, n) == Only(md, {m \in Metadatum : m.before = n})
Below(md, n) == Only(md, {m \in Metadatum : m.before < n})
InOrder(md) == \A i, k \in 1 .. Len(md) : i < k => md[i].before <= md[k].before

LEMMA MetadataKinds ==
    ASSUME NEW md \in Seq(Metadatum), NEW n \in Nat
    PROVE  /\ Below(md, n) \in Seq(Metadatum)
           /\ Here(md, n) \in Seq({m \in Metadatum : m.before = n})
           /\ Here(md, n) \in Seq(Metadatum)
<1>1. PICK at : at = {m \in Metadatum : m.before = n}
  OBVIOUS
<1>2. PICK low : low = {m \in Metadatum : m.before < n}
  OBVIOUS
<1>3. Metadatum \cap at = at /\ at \subseteq Metadatum /\ Metadatum \cap low \subseteq Metadatum
  BY <1>1
<1>4. Only(md, at) \in Seq(at)
  <2>1. Only(md, at) \in Seq(Metadatum \cap at)
    BY OnlyWithin
  <2> QED BY <2>1, <1>3
<1>5. Only(md, at) \in Seq(Metadatum)
  BY <1>3, <1>4, SeqMonotonic
<1>6. Only(md, low) \in Seq(Metadatum)
  <2>1. Only(md, low) \in Seq(Metadatum \cap low)
    BY OnlyWithin
  <2> QED BY <2>1, <1>3, SeqMonotonic
<1> QED BY <1>1, <1>2, <1>4, <1>5, <1>6 DEF Here, Below

\* Where metadata is in order, what stands before a cue follows what stands before.
LEMMA MetadataSplit ==
    ASSUME NEW md \in Seq(Metadatum), InOrder(md), NEW n \in Nat
    PROVE  Below(md, n) \o Here(md, n) = Below(md, n + 1)
<1>0. PICK at : at = {m \in Metadatum : m.before = n}
  OBVIOUS
<1>1. PICK low : low = {m \in Metadatum : m.before < n}
  OBVIOUS
<1>2. PICK upto : upto = {m \in Metadatum : m.before < n + 1}
  OBVIOUS
<1>3. PICK T : T = {a \in Seq(Metadatum) :
                      InOrder(a) => Only(a, low) \o Only(a, at) = Only(a, upto)}
  OBVIOUS
<1>4. <<>> \in T
  <2>1. PICK a \in Seq(Metadatum) : a = <<>> /\ Len(a) = 0
    BY EmptySeq
  <2>0. ASSUME NEW keep PROVE Only(a, keep) = <<>>
    <3>1. \A i \in 1 .. Len(a) : a[i] \notin keep
      BY <2>1
    <3> QED BY <3>1, OnlyNone
  <2>2. Only(a, low) = <<>> /\ Only(a, at) = <<>> /\ Only(a, upto) = <<>>
    BY <2>0
  <2>3. Only(a, low) \o Only(a, at) = Only(a, upto)
    BY <2>1, <2>2, ConcatEmptySeq
  <2>4. a \in T
    BY <1>3, <2>3
  <2> QED BY <2>1, <2>4
<1>5. ASSUME NEW a \in Seq(Metadatum), NEW e \in Metadatum, a \in T PROVE Append(a, e) \in T
  <2>1. PICK k \in Nat : k = Len(a)
    OBVIOUS
  <2>2. PICK u : u = Append(a, e)
    OBVIOUS
  <2>3. u \in Seq(Metadatum) /\ Len(u) = k + 1 /\ u[k + 1] = e /\ \A i \in 1 .. k : u[i] = a[i]
    BY <2>1, <2>2, AppendProperties
  <2>4. SUFFICES ASSUME InOrder(u) PROVE Only(u, low) \o Only(u, at) = Only(u, upto)
    BY <1>3, <2>2, <2>3
  <2>5. \A i \in 1 .. k : a[i].before <= e.before
    <3>1. ASSUME NEW i \in 1 .. k PROVE u[i].before <= u[k + 1].before
      <4>1. i \in 1 .. k + 1 /\ k + 1 \in 1 .. k + 1 /\ i < k + 1
        OBVIOUS
      <4> QED BY <4>1, <2>3, <2>4 DEF InOrder
    <3> QED BY <3>1, <2>3
  <2>6. InOrder(a)
    <3>1. ASSUME NEW i \in 1 .. k, NEW j \in 1 .. k, i < j PROVE a[i].before <= a[j].before
      <4>1. i \in 1 .. k + 1 /\ j \in 1 .. k + 1
        OBVIOUS
      <4> QED BY <4>1, <3>1, <2>3, <2>4 DEF InOrder
    <3> QED BY <3>1, <2>1 DEF InOrder
  <2>7. PICK x, y, z :
           /\ x \in Seq(Metadatum) /\ y \in Seq(Metadatum)
           /\ x = Only(a, low) /\ y = Only(a, at) /\ z = Only(a, upto) /\ x \o y = z
    <3>1. Only(a, low) \in Seq(Metadatum) /\ Only(a, at) \in Seq(Metadatum)
      BY <1>0, <1>1, MetadataKinds DEF Below, Here
    <3> QED BY <3>1, <2>6, <1>3, <1>5
  <2>8. /\ Only(u, low) = IF e \in low THEN Append(x, e) ELSE x
        /\ Only(u, at) = IF e \in at THEN Append(y, e) ELSE y
        /\ Only(u, upto) = IF e \in upto THEN Append(z, e) ELSE z
    <3>1. ASSUME NEW keep
          PROVE  Only(Append(a, e), keep)
                   = IF e \in keep THEN Append(Only(a, keep), e) ELSE Only(a, keep)
      BY OnlyAppended
    <3> QED BY <3>1, <2>2, <2>7
  <2>9. e.before \in Nat
    BY DEF Metadatum
  <2>10. CASE e.before < n
    <3>1. e \in low /\ e \notin at /\ e \in upto
      BY <2>9, <2>10, <1>0, <1>1, <1>2
    <3>2. \A i \in 1 .. k : a[i] \notin at
      <4>0. \A i \in 1 .. k : a[i] \in Metadatum
        BY <2>1
      <4>1. \A i \in 1 .. k : a[i].before \in Nat
        BY <4>0 DEF Metadatum
      <4> QED BY <4>1, <2>5, <2>9, <2>10, <1>0
    <3>3. y = <<>>
      BY <2>1, <2>7, <3>2, OnlyNone
    <3>4. z = x
      BY <2>7, <3>3, ConcatEmptySeq
    <3>5. Append(x, e) \o <<>> = Append(x, e)
      BY ConcatEmptySeq
    <3> QED BY <2>8, <3>1, <3>3, <3>4, <3>5
  <2>11. CASE e.before = n
    <3>1. e \notin low /\ e \in at /\ e \in upto
      BY <2>9, <2>11, <1>0, <1>1, <1>2
    <3>2. x \o Append(y, e) = Append(x \o y, e)
      BY ConcatAppend
    <3> QED BY <2>7, <2>8, <3>1, <3>2
  <2>12. CASE e.before > n
    <3>1. e \notin low /\ e \notin at /\ e \notin upto
      BY <2>9, <2>12, <1>0, <1>1, <1>2
    <3> QED BY <2>7, <2>8, <3>1
  <2> QED BY <2>9, <2>10, <2>11, <2>12
<1>6. md \in T
  BY <1>4, <1>5, Growing
<1> QED BY <1>0, <1>1, <1>2, <1>3, <1>6 DEF Below, Here

\* Nothing stands before the first cue's metadata, everything before the end.
LEMMA MetadataEnds ==
    ASSUME NEW md \in Seq(Metadatum)
    PROVE  /\ Below(md, 0) = <<>>
           /\ \A n \in Nat : (\A i \in 1 .. Len(md) : md[i].before < n) => Below(md, n) = md
<1>0. \A i \in 1 .. Len(md) : md[i] \in Metadatum
  OBVIOUS
<1>1. \A i \in 1 .. Len(md) : md[i] \in Metadatum /\ md[i].before \in Nat
  BY <1>0 DEF Metadatum
<1>2. PICK low : low = {m \in Metadatum : m.before < 0}
  OBVIOUS
<1>3. Only(md, low) = <<>>
  BY <1>1, <1>2, OnlyNone
<1>4. ASSUME NEW n \in Nat, \A i \in 1 .. Len(md) : md[i].before < n
      PROVE  Below(md, n) = md
  <2>1. PICK all : all = {m \in Metadatum : m.before < n}
    OBVIOUS
  <2>2. Only(md, all) = md
    BY <1>1, <1>4, <2>1, OnlySame
  <2> QED BY <2>1, <2>2 DEF Below
<1> QED BY <1>2, <1>3, <1>4 DEF Below

TextOf == [m \in Metadatum |-> m.text]
Note == {b \in Piece : IsMetadata(b)}

LEMMA TextsGo ==
    ASSUME NEW a \in Seq(Metadatum)
    PROVE  /\ Mapped(a, TextOf) \in Seq(Note)
           /\ \A e \in Metadatum :
                 Mapped(Append(a, e), TextOf) = Append(Mapped(a, TextOf), TextOf[e])
<1>1. TextOf \in [Metadatum -> Note]
  BY DEF TextOf, Metadatum, Note
<1>2. Mapped(a, TextOf) \in Seq(Note)
  BY <1>1, MappedGo, SMTT(30)
<1>3. ASSUME NEW e \in Metadatum
      PROVE  Mapped(Append(a, e), TextOf) = Append(Mapped(a, TextOf), TextOf[e])
  BY <1>1, MappedAppended, ZenonT(20)
<1> QED BY <1>2, <1>3

LEMMA MetadataTexts ==
    ASSUME NEW doc, doc.metadata \in Seq(Metadatum), NEW n \in Nat
    PROVE  /\ MetadataAt(doc, n) = Mapped(Here(doc.metadata, n), TextOf)
           /\ MetadataAt(doc, n) \in Seq(Note)
<1>1. PICK md \in Seq(Metadatum) : md = doc.metadata
  OBVIOUS
<1>2. PICK at : at = {m \in Metadatum : m.before = n}
  OBVIOUS
<1>3. PICK all : all = {m \in ToSet(md) : m.before = n}
  OBVIOUS
<1>4. Only(md, all) = Only(md, at)
  <2>1. \A i \in 1 .. Len(md) : md[i] \in Metadatum /\ md[i] \in ToSet(md)
    BY DEF ToSet
  <2>2. \A i \in 1 .. Len(md) : md[i] \in all <=> md[i] \in at
    BY <2>1, <1>2, <1>3
  <2> QED BY <2>2, OnlySame
<1>5. PICK here \in Seq(Metadatum) : here = Here(md, n)
  BY MetadataKinds
<1>6. MetadataAt(doc, n) = [k \in DOMAIN here |-> here[k].text]
  BY <1>1, <1>2, <1>3, <1>4, <1>5 DEF MetadataAt, Here
<1>7. [k \in DOMAIN here |-> here[k].text] = [k \in DOMAIN here |-> TextOf[here[k]]]
  <2>1. \A k \in DOMAIN here : here[k] \in Metadatum
    OBVIOUS
  <2> QED BY <2>1 DEF TextOf
<1>9. Mapped(here, TextOf) \in Seq(Note)
  BY TextsGo
<1> QED BY <1>1, <1>5, <1>6, <1>7, <1>9 DEF Mapped

-----------------------------------------------------------------------------
(* What is written is read.                                                *)

Doc(format, header, md, cs) ==
    [format |-> format, header |-> header, metadata |-> md, cues |-> cs]

LEMMA BlockTaken ==
    ASSUME NEW format, NEW header, NEW md, NEW cs, NEW block \in Piece, ~Void(block)
    PROVE  /\ format = "vtt" /\ IsMetadata(block) =>
                 ParseBlock(Doc(format, header, md, cs), block)
                   = Doc(format, header, Append(md, [before |-> Len(cs), text |-> block]), cs)
           /\ ~(format = "vtt" /\ IsMetadata(block)) =>
                 ParseBlock(Doc(format, header, md, cs), block)
                   = Doc(format, header, md, Append(cs, ParseCue(block, format)))
BY DEF Doc, ParseBlock

LEMMA NoteSaid ==
    ASSUME NEW block \in Note
    PROVE  block \in Piece /\ ~Void(block) /\ IsMetadata(block)
<1>1. block \in Piece /\ block[1].kind = "note" /\ block[1].margin = "none"
  BY DEF Note, IsMetadata
<1>2. 1 \in DOMAIN block
  BY <1>1 DEF Piece
<1>3. ~White(block[1])
  BY <1>1 DEF White
<1> QED BY <1>1, <1>2, <1>3 DEF Void, IsMetadata

\* Metadata that is written before a cue is read there.
LEMMA MetadataRead ==
    ASSUME NEW header, NEW md \in Seq(Metadatum), NEW C, NEW cs \in Seq(C),
           NEW here \in Seq({m \in Metadatum : m.before = Len(cs)})
    PROVE  Reads(Doc("vtt", header, md, cs), Mapped(here, TextOf),
                 Doc("vtt", header, md \o here, cs))
<1>1. PICK n \in Nat : n = Len(cs)
  OBVIOUS
<1>2. PICK M : M = {m \in Metadatum : m.before = n}
  OBVIOUS
<1>3. M \subseteq Metadatum /\ here \in Seq(M)
  BY <1>1, <1>2
<1> DEFINE D(a) == Doc("vtt", header, md \o a, cs)
<1>4. PICK b : b = Doc("vtt", header, md, cs)
  OBVIOUS
<1>5. PICK T : T = {a \in Seq(M) : Reads(b, Mapped(a, TextOf), D(a))}
  OBVIOUS
<1>6. TextOf \in [Metadatum -> Note]
  BY DEF TextOf, Metadatum, Note
<1>7. <<>> \in T
  <2>1. PICK a \in Seq(M) : a = <<>> /\ DOMAIN a = {}
    <3>1. PICK a \in Seq(M) : a = <<>> /\ Len(a) = 0
      BY EmptySeq
    <3>2. DOMAIN a = {}
      BY <3>1
    <3> QED BY <3>1, <3>2
  <2>2. Mapped(a, TextOf) = <<>>
    BY <2>1 DEF Mapped
  <2>3. md \o a = md
    BY <2>1, ConcatEmptySeq
  <2>4. Reads(b, <<>>, b)
    BY ReadsGo
  <2>5. a \in T
    BY <1>4, <1>5, <2>2, <2>3, <2>4
  <2> QED BY <2>1, <2>5
<1>8. ASSUME NEW a \in Seq(M), NEW e \in M, a \in T PROVE Append(a, e) \in T
  <2>1. a \in Seq(Metadatum) /\ e \in Metadatum /\ e.before = n
    BY <1>2, <1>3, SeqMonotonic
  <2>2. PICK t \in Note : t = TextOf[e] /\ t = e.text
    BY <2>1, <1>6 DEF TextOf
  <2>3. PICK w \in Seq(Note) : w = Mapped(a, TextOf)
    BY <2>1, TextsGo
  <2>4. Mapped(Append(a, e), TextOf) = Append(w, t)
    <3>1. Mapped(Append(a, e), TextOf) = Append(Mapped(a, TextOf), TextOf[e])
      BY <2>1, TextsGo
    <3> QED BY <3>1, <2>2, <2>3
  <2>5. Reads(b, w, D(a))
    BY <1>5, <1>8, <2>3
  <2>6. PICK d : d = D(a)
    OBVIOUS
  <2>7. Reads(b, Append(w, t), ParseBlock(d, t))
    BY <2>5, <2>6, ReadsGo
  <2>8. ParseBlock(d, t) = D(Append(a, e))
    <3>1. [before |-> n, text |-> t] = e
      BY <2>1, <2>2 DEF Metadatum
    <3>2. t \in Piece /\ ~Void(t) /\ IsMetadata(t)
      BY NoteSaid
    <3>3. ParseBlock(d, t) = Doc("vtt", header, Append(md \o a, e), cs)
      BY <1>1, <2>6, <3>1, <3>2, BlockTaken
    <3>4. md \o Append(a, e) = Append(md \o a, e)
      BY <2>1, ConcatAppend, SMTT(20)
    <3> QED BY <3>3, <3>4
  <2>9. Append(a, e) \in Seq(M)
    OBVIOUS
  <2> QED BY <1>5, <2>4, <2>7, <2>8, <2>9
<1>9. here \in T
  BY <1>3, <1>7, <1>8, Growing
<1> QED BY <1>4, <1>5, <1>9

\* The block of a cue.
CueBlock(name, timing, text) == name \o <<timing>> \o text

LEMMA BlockParts ==
    ASSUME NEW format, NEW name \in Seq(Solid), Named(name, format), NEW timing \in Solid,
           NEW text \in Trimmed
    PROVE  LET b == CueBlock(name, timing, text)
               k == Len(name) + 1
           IN  /\ k \in 1 .. 2 /\ b \in Piece /\ Len(b) = k + Len(text) /\ b[k] = timing
               /\ (\A i \in 1 .. Len(text) : b[k + i] = text[i])
               /\ k = 2 => b[1] = name[1]
<1> DEFINE b == CueBlock(name, timing, text)
<1>1. PICK p \in Nat, q \in Nat : p = Len(name) /\ q = Len(text)
  BY DEF Trimmed, Piece
<1>2. p \in 0 .. 1
  <2>1. name = <<>> => p = 0
    BY <1>1
  <2> QED BY <2>1, <1>1 DEF Named
<1>3. text \in Seq(Solid)
  BY DEF Trimmed, Piece
<1>4. PICK one \in Seq(Solid) : one = <<timing>> /\ Len(one) = 1 /\ one[1] = timing
  <2>1. <<timing>> \in Seq(Solid) /\ Len(<<timing>>) = 1 /\ <<timing>>[1] = timing
    OBVIOUS
  <2> QED BY <2>1
<1>5. PICK h : h = name \o one
  OBVIOUS
<1>6. /\ h \in Seq(Solid) /\ Len(h) = p + 1
      /\ \A i \in 1 .. p + 1 : h[i] = IF i <= p THEN name[i] ELSE one[i - p]
  BY <1>1, <1>4, <1>5, ConcatProperties
<1>7. h[p + 1] = timing /\ (p = 1 => h[1] = name[1])
  <2>1. p + 1 \in 1 .. p + 1 /\ ~(p + 1 <= p) /\ p + 1 - p = 1
    BY <1>2
  <2>2. p = 1 => 1 \in 1 .. p + 1 /\ 1 <= p
    OBVIOUS
  <2> QED BY <2>1, <2>2, <1>4, <1>6
<1>8. PICK c : c = h \o text
  OBVIOUS
<1>9. /\ c \in Seq(Solid) /\ Len(c) = (p + 1) + q
      /\ \A i \in 1 .. (p + 1) + q : c[i] = IF i <= p + 1 THEN h[i] ELSE text[i - (p + 1)]
  <2>1. /\ c \in Seq(Solid) /\ Len(c) = Len(h) + Len(text)
        /\ \A i \in 1 .. Len(h) + Len(text) :
              c[i] = IF i <= Len(h) THEN h[i] ELSE text[i - Len(h)]
    BY <1>3, <1>6, <1>8, ConcatProperties
  <2> QED BY <2>1, <1>1, <1>6
<1>10. b = c
  BY <1>4, <1>5, <1>8 DEF CueBlock
<1>11. c[p + 1] = timing /\ (p = 1 => c[1] = name[1])
  <2>1. p + 1 \in 1 .. (p + 1) + q /\ p + 1 <= p + 1
    BY <1>2
  <2>2. p = 1 => 1 \in 1 .. (p + 1) + q /\ 1 <= p + 1
    OBVIOUS
  <2> QED BY <2>1, <2>2, <1>7, <1>9
<1>12. \A i \in 1 .. q : c[(p + 1) + i] = text[i]
  <2>1. ASSUME NEW i \in 1 .. q PROVE c[(p + 1) + i] = text[i]
    <3>1. PICK j \in 1 .. (p + 1) + q : j = (p + 1) + i /\ ~(j <= p + 1) /\ j - (p + 1) = i
      BY <1>2
    <3>2. c[j] = text[j - (p + 1)]
      BY <3>1, <1>9
    <3> QED BY <3>1, <3>2
  <2> QED BY <2>1
<1>13. c \in Piece
  BY <1>9 DEF Piece
<1>14. PICK k \in 1 .. 2 : k = p + 1
  BY <1>2
<1>15. Len(name) + 1 = k
  BY <1>1, <1>14
<1>16. /\ Len(c) = k + q /\ c[k] = timing /\ (k = 2 => c[1] = name[1])
       /\ \A i \in 1 .. q : c[k + i] = text[i]
  BY <1>9, <1>11, <1>12, <1>14
<1> QED BY <1>1, <1>10, <1>13, <1>15, <1>16

\* A line of times.
LEMMA TimingLine ==
    ASSUME NEW start \in Time, NEW end \in Time, NEW settings_ \in Seq(STRING), NEW format
    PROVE  LET timing == Timing(Timestamp(start, format), Timestamp(end, format), settings_)
           IN  /\ timing \in Solid /\ timing.kind = "timing" /\ ~White(timing)
               /\ timing.margin = "none"
               /\ timing.start = Timestamp(start, format)
               /\ timing.end = Timestamp(end, format)
               /\ timing.settings = settings_
<1>1. ASSUME NEW t \in Time PROVE Timestamp(t, format) \in StampOf
  <2>1. t \in Nat
    BY SubtitleAssumption, SMT DEF Time
  <2>2. t \div 3600000 \in Nat
    BY <2>1, SMT
  <2>3. (t \div 60000) % 60 \in Nat
    BY <2>1, SMT
  <2>4. (t \div 1000) % 60 \in Nat
    BY <2>1, SMT
  <2>5. t % 1000 \in 0 .. 999
    BY <2>1, SMT
  <2>6. Mark(format) \in {"comma", "point"}
    BY DEF Mark
  <2> QED BY <2>2, <2>3, <2>4, <2>5, <2>6, SMT DEF Timestamp, Stamp, StampOf
<1>2. PICK x, y : x = Timestamp(start, format) /\ y = Timestamp(end, format)
  OBVIOUS
<1>3. x \in StampOf /\ y \in StampOf
  BY <1>1, <1>2
<1>4. PICK timing : timing = Timing(x, y, settings_)
  OBVIOUS
<1>5. /\ timing \in Timed /\ timing.kind = "timing" /\ timing.margin = "none"
      /\ timing.start = x /\ timing.end = y /\ timing.settings = settings_
  BY <1>3, <1>4 DEF Timing, Timed, Margin
<1>6. timing \in Solid /\ ~White(timing)
  BY <1>5, LineKinds DEF Solid, White
<1> QED BY <1>2, <1>4, <1>5, <1>6

\* The block of a cue begins and ends with something and is no metadata; when its
\* text is not too long it is read as that cue.
LEMMA CueWritten ==
    ASSUME NEW format \in Format, NEW name \in Seq(Solid), Named(name, format),
           NEW start \in Time, NEW end \in Time, start <= end,
           NEW given \in Seq(STRING), NEW text \in Trimmed
    PROVE  LET timing == Timing(Timestamp(start, format), Timestamp(end, format), given)
               b == CueBlock(name, timing, text)
           IN  /\ b \in Piece /\ Bounded(b) /\ ~Void(b)
               /\ ~(name # <<>> /\ name[1].kind = "note") => ~IsMetadata(b)
               /\ Len(b) - (Len(name) + 1) = Len(text)
               /\ Len(name) + 1 \in DOMAIN b /\ b[Len(name) + 1].kind = "timing"
               /\ Len(text) <= SourceLimit => CueValid(b, format)
               /\ ParseCue(b, format) = [identifier |-> name, start |-> start, end |-> end,
                                         settings |-> given, text |-> text]
<1>1. PICK timing \in Solid :
         /\ timing = Timing(Timestamp(start, format), Timestamp(end, format), given)
         /\ timing.kind = "timing" /\ ~White(timing) /\ timing.margin = "none"
         /\ timing.start = Timestamp(start, format) /\ timing.end = Timestamp(end, format)
         /\ timing.settings = given
  BY TimingLine
<1>2. PICK k \in 1 .. 2, q \in Nat \ {0} : k = Len(name) + 1 /\ q = Len(text)
  <2>1. Len(name) + 1 \in 1 .. 2
    BY BlockParts
  <2>2. Len(text) \in Nat \ {0}
    BY DEF Trimmed, Piece
  <2> QED BY <2>1, <2>2
<1>3. PICK b \in Piece : /\ b = CueBlock(name, timing, text)
                         /\ Len(b) = k + q /\ b[k] = timing
                         /\ (\A i \in 1 .. q : b[k + i] = text[i])
                         /\ k = 2 => b[1] = name[1]
  BY <1>1, <1>2, BlockParts
<1>4. DOMAIN b = 1 .. k + q /\ b \in Seq(Solid)
  BY <1>3 DEF Piece
<1>5. \/ k = 1 /\ name = <<>> /\ format = "vtt"
      \/ /\ k = 2 /\ Len(name) = 1 /\ name # <<>> /\ ~White(name[1]) /\ name[1].margin = "none"
         /\ IF format = "srt" THEN name[1].kind = "number" ELSE name[1].kind # "timing"
  <2>1. name = <<>> => k = 1
    BY <1>2
  <2> QED BY <2>1, <1>2 DEF Named
<1>6. ~White(b[1]) /\ b[1].margin = "none"
  BY <1>1, <1>3, <1>5
<1>7. ~White(b[Len(b)])
  <2>1. q \in 1 .. q /\ ~White(text[q])
    BY <1>2 DEF Trimmed, Bounded
  <2> QED BY <2>1, <1>3
<1>8. Bounded(b) /\ ~Void(b)
  BY <1>4, <1>6, <1>7 DEF Bounded, Void
<1>9. ~(name # <<>> /\ name[1].kind = "note") => ~IsMetadata(b)
  BY <1>1, <1>3, <1>5 DEF IsMetadata
<1>10. TimingIndex(b) = k
  BY <1>1, <1>3, <1>5 DEF TimingIndex, Format
<1>11. Trim(SubSeq(b, k + 1, k + q)) = text
  <2>1. PICK S : S = Solid
    OBVIOUS
  <2>2. S \in SUBSET Lines(Word) /\ (\A x \in S : Flush(x) \in S) /\ b \in Seq(S)
        /\ text \in Seq(S) /\ text # <<>> /\ Bounded(text)
    BY <2>1, <1>4, Solids DEF Trimmed, Piece
  <2>3. PICK u \in Seq(S) : /\ u = SubSeq(b, k + 1, k + q) /\ Len(u) = q
                            /\ \A i \in 1 .. q : u[i] = b[k + i]
    <3>1. \A i \in k + 1 .. k + q : b[i] \in S
      BY <2>2, <1>3
    <3>2. k + 1 \in Int /\ k + q \in Int /\ k + 1 <= k + q /\ (k + q) - (k + 1) + 1 = q
      OBVIOUS
    <3>3. PICK c \in Int, d \in Int : c = k + 1 /\ d = k + q
      BY <3>2
    <3>4. /\ SubSeq(b, c, d) \in Seq(S)
          /\ Len(SubSeq(b, c, d)) = IF c <= d THEN d - c + 1 ELSE 0
          /\ \A i \in 1 .. d - c + 1 : SubSeq(b, c, d)[i] = b[c + i - 1]
      BY <3>1, <3>3, SubSeqProperties
    <3>5. PICK u \in Seq(S) : u = SubSeq(b, c, d)
      BY <3>4
    <3>6. Len(u) = q /\ \A i \in 1 .. q : u[i] = b[k + i]
      <4>1. Len(u) = q
        BY <3>2, <3>3, <3>4, <3>5
      <4>2. ASSUME NEW i \in 1 .. q PROVE u[i] = b[k + i]
        <5>1. i \in 1 .. d - c + 1 /\ c + i - 1 = k + i
          BY <3>3
        <5> QED BY <5>1, <3>4, <3>5
      <4> QED BY <4>1, <4>2
    <3> QED BY <3>3, <3>5, <3>6
  <2>4. /\ Len(text) <= Len(u) /\ \A i \in 1 .. Len(text) : u[i] = text[i]
    BY <2>3, <1>2, <1>3
  <2>5. \A i \in Len(text) + 1 .. Len(u) : White(u[i])
    BY <2>3, <1>2
  <2>6. Trim(u) = text
    BY <2>2, <2>3, <2>4, <2>5, TrimEnds
  <2> QED BY <2>3, <2>6
<1>12. (IF k = 1 THEN <<>> ELSE Trim(<<b[1]>>)) = name
  <2>1. CASE k = 1
    BY <2>1, <1>5
  <2>2. CASE k = 2
    <3>1. b[1] = name[1] /\ ~White(name[1]) /\ name[1].margin = "none" /\ Len(name) = 1
      BY <2>2, <1>3, <1>5
    <3>5. PICK x \in Solid : x = name[1]
      <4>1. Len(name) = 1
        BY <3>1
      <4>2. 1 \in 1 .. Len(name)
        BY <4>1
      <4>3. name[1] \in Solid
        BY <4>2, ElementOfSeq
      <4> QED BY <4>3
    <3>2. x = name[1] /\ name = <<x>>
      BY <3>1, <3>5
    <3>3. Trim(<<x>>) = <<Flush(x)>>
      BY <3>1, <3>2, TrimOne
    <3>4. Flush(x) = x
      <4>1. x \in Lines(Word) /\ x.margin = "none"
        BY <3>1, <3>2 DEF Solid
      <4> QED BY <4>1, FlushLine
    <3> QED BY <2>2, <3>1, <3>2, <3>3, <3>4
  <2> QED BY <2>1, <2>2
<1>13. /\ ParseTime(timing.start, format) = start
       /\ ParseTime(timing.end, format) = end
  BY <1>1, TimeReadBack
<1>14. PICK cue : cue = [identifier |-> name, start |-> start, end |-> end,
                         settings |-> given, text |-> text]
  OBVIOUS
<1>15. ParseCue(b, format) = cue
  BY <1>1, <1>3, <1>10, <1>11, <1>12, <1>13, <1>14 DEF ParseCue
<1>16. ASSUME Len(text) <= SourceLimit PROVE CueValid(b, format)
  <2>1. format = "srt" => b[1].kind = "number"
    BY <1>3, <1>5
  <2>2. Len(b) > k /\ b[k].kind = "timing"
    BY <1>1, <1>3
  <2>3. cue.start # NoTime /\ cue.end >= cue.start /\ Len(cue.text) \in 1 .. SourceLimit
    <3>1. start >= 0 /\ start \in Int /\ end \in Int
      BY SubtitleAssumption, SMT DEF Time
    <3>2. start # NoTime
      BY <3>1 DEF NoTime
    <3>3. q \in 1 .. SourceLimit
      BY <1>2, <1>16, SubtitleAssumption
    <3> QED BY <3>1, <3>2, <3>3, <1>2, <1>14
  <2> QED BY <2>1, <2>2, <2>3, <1>10, <1>15 DEF CueValid
<1>17. k \in DOMAIN b /\ b[k].kind = "timing" /\ Len(b) - k = Len(text)
  BY <1>1, <1>2, <1>3, <1>4
<1> QED BY <1>1, <1>2, <1>3, <1>8, <1>9, <1>14, <1>15, <1>16, <1>17

\* The blocks between the cues' blocks R, and with them; as far as a document is
\* written, its metadata goes into a file of its own format alone.
Own(doc, format) == format = "vtt" /\ doc.format = "vtt"
Notes(doc, format, n) == IF Own(doc, format) THEN MetadataAt(doc, n) ELSE <<>>
Parts(doc, format, R) == [i \in DOMAIN doc.cues |-> Notes(doc, format, i - 1) \o <<R[i]>>]
Inside(doc, format, R) ==
    FlattenSeq(Parts(doc, format, R)) \o Notes(doc, format, Len(doc.cues))
Kept(doc, format, n) == IF Own(doc, format) THEN Below(doc.metadata, n) ELSE <<>>

\* The N blocks R of cues, and those between them, are in S.
AllIn(doc, format, R, N, S) ==
    /\ \A i \in 1 .. N : R[i] \in S
    /\ \A n \in 0 .. N : Notes(doc, format, n) \in Seq(S)
\* Block by block.
Unfolded(doc, format, R, N, S) ==
    \E h : /\ FlattenSeq(Parts(doc, format, R)) = h[N] /\ h[0] = <<>>
           /\ \A i \in 0 .. N : h[i] \in Seq(S)
           /\ \A i \in 1 .. N : h[i] = Append(h[i - 1] \o Notes(doc, format, i - 1), R[i])

LEMMA InsideUnfolds ==
    ASSUME NEW doc, NEW N \in Nat, DOMAIN doc.cues = 1 .. N, NEW format, NEW S, NEW R,
           AllIn(doc, format, R, N, S)
    PROVE  Unfolded(doc, format, R, N, S)
<1>0. /\ \A i \in 1 .. N : R[i] \in S
      /\ \A n \in 0 .. N : Notes(doc, format, n) \in Seq(S)
  BY DEF AllIn
<1>1. DOMAIN doc.cues = 1 .. N
  OBVIOUS
<1>2. PICK p : p = [i \in 1 .. N |-> Notes(doc, format, i - 1) \o <<R[i]>>]
  OBVIOUS
<1>3. Parts(doc, format, R) = p
  BY <1>1, <1>2 DEF Parts
<1>4. ASSUME NEW i \in 1 .. N
      PROVE  /\ Notes(doc, format, i - 1) \in Seq(S) /\ R[i] \in S
             /\ p[i] = Append(Notes(doc, format, i - 1), R[i])
             /\ p[i] \in Seq(S)
  <2>1. i - 1 \in 0 .. N
    OBVIOUS
  <2>2. PICK a \in Seq(S) : a = Notes(doc, format, i - 1)
    BY <2>1, <1>0
  <2>3. PICK r \in S : r = R[i]
    BY <1>0
  <2>4. p[i] = a \o <<r>>
    BY <1>2, <2>2, <2>3
  <2>5. Append(a, r) = a \o <<r>>
    BY AppendIsConcat
  <2>6. Append(a, r) \in Seq(S)
    OBVIOUS
  <2> QED BY <2>2, <2>3, <2>4, <2>5, <2>6
<1>5. p \in Seq(Seq(S)) /\ Len(p) = N
  <2>1. p \in [1 .. N -> Seq(S)]
    BY <1>2, <1>4
  <2> QED BY <2>1, Listed
<1>6. PICK h : /\ FlattenSeq(p) = h[N] /\ h[0] = <<>>
               /\ \A i \in 0 .. N : h[i] \in Seq(S)
               /\ \A i \in 1 .. N : h[i] = h[i - 1] \o p[i]
  <2>1. \E h : /\ FlattenSeq(p) = h[Len(p)] /\ h[0] = <<>>
               /\ \A i \in 0 .. Len(p) : h[i] \in Seq(S)
               /\ \A i \in 1 .. Len(p) : h[i] = h[i - 1] \o p[i]
    BY <1>5, FlattenUnfolds
  <2> QED BY <2>1, <1>5
<1>7. ASSUME NEW i \in 1 .. N
      PROVE  h[i] = Append(h[i - 1] \o Notes(doc, format, i - 1), R[i])
  <2>1. i - 1 \in 0 .. N
    OBVIOUS
  <2>2. PICK a \in Seq(S), b \in Seq(S), r \in S :
           a = h[i - 1] /\ b = Notes(doc, format, i - 1) /\ r = R[i]
    BY <2>1, <1>4, <1>6
  <2>3. h[i] = a \o Append(b, r)
    BY <2>2, <1>4, <1>6
  <2>4. a \o Append(b, r) = Append(a \o b, r)
    BY ConcatAppend
  <2> QED BY <2>2, <2>3, <2>4
<1> QED BY <1>3, <1>6, <1>7 DEF Unfolded

\* Every block of a cue is there, and the last of them is the last block but for
\* the metadata after it.
Spread(R, N, x) == x # <<>> /\ x[Len(x)] = R[N] /\ \A i \in 1 .. N : R[i] \in ToSet(x)

LEMMA InsideHolds ==
    ASSUME NEW doc, NEW N \in Nat \ {0}, DOMAIN doc.cues = 1 .. N, NEW format, NEW S, NEW R,
           AllIn(doc, format, R, N, S)
    PROVE  LET x == FlattenSeq(Parts(doc, format, R)) IN x \in Seq(S) /\ Spread(R, N, x)
<1>1. PICK h : /\ FlattenSeq(Parts(doc, format, R)) = h[N] /\ h[0] = <<>>
               /\ \A i \in 0 .. N : h[i] \in Seq(S)
               /\ \A i \in 1 .. N : h[i] = Append(h[i - 1] \o Notes(doc, format, i - 1), R[i])
  <2>1. Unfolded(doc, format, R, N, S)
    BY InsideUnfolds
  <2> QED BY <2>1 DEF Unfolded
<1>2. ASSUME NEW i \in 1 .. N
      PROVE  \E a \in Seq(S) : /\ h[i] = Append(a, R[i])
                               /\ ToSet(h[i - 1]) \cup {R[i]} \subseteq ToSet(h[i])
                               /\ h[i] # <<>> /\ h[i][Len(h[i])] = R[i]
  <2>1. i - 1 \in 0 .. N
    OBVIOUS
  <2>2. PICK y \in Seq(S), z \in Seq(S), r \in S :
           y = h[i - 1] /\ z = Notes(doc, format, i - 1) /\ r = R[i]
    BY <2>1, <1>1 DEF AllIn
  <2>3. PICK m \in Nat, n \in Nat : m = Len(y) /\ n = Len(z)
    OBVIOUS
  <2>4. PICK a : a = y \o z
    OBVIOUS
  <2>5. a \in Seq(S) /\ Len(a) = m + n
        /\ \A j \in 1 .. m + n : a[j] = IF j <= m THEN y[j] ELSE z[j - m]
    BY <2>3, <2>4, ConcatProperties
  <2>6. PICK u : u = Append(a, r)
    OBVIOUS
  <2>7. u \in Seq(S) /\ Len(u) = m + n + 1 /\ u[m + n + 1] = r
        /\ \A j \in 1 .. m + n : u[j] = a[j]
    <3>1. u \in Seq(S) /\ Len(u) = Len(a) + 1 /\ u[Len(a) + 1] = r
          /\ \A j \in 1 .. Len(a) : u[j] = a[j]
      BY <2>5, <2>6, AppendProperties
    <3> QED BY <2>5, <3>1
  <2>8. h[i] = u
    BY <1>1, <2>2, <2>4, <2>6
  <2>9. u # <<>> /\ u[Len(u)] = r /\ r \in ToSet(u)
    <3>1. m + n + 1 \in DOMAIN u /\ DOMAIN u = 1 .. m + n + 1
      BY <2>7
    <3>2. r \in ToSet(u)
      BY <3>1, <2>7 DEF ToSet
    <3> QED BY <3>2, <2>7
  <2>10. ToSet(y) \subseteq ToSet(u)
    <3>1. ASSUME NEW j \in 1 .. m PROVE y[j] \in ToSet(u)
      <4>1. j \in 1 .. m + n + 1 /\ j \in 1 .. m + n /\ j <= m
        OBVIOUS
      <4>2. u[j] = y[j]
        BY <4>1, <2>5, <2>7
      <4>3. j \in DOMAIN u
        BY <4>1, <2>7
      <4> QED BY <4>2, <4>3 DEF ToSet
    <3> QED BY <3>1, <2>3 DEF ToSet
  <2> QED BY <2>2, <2>5, <2>6, <2>8, <2>9, <2>10
<1>3. PICK W : W = [k \in 0 .. N |-> {s \in Seq(S) : \A i \in 1 .. k : R[i] \in ToSet(s)}]
  OBVIOUS
<1>4. h[0] \in W[0]
  <2>1. 0 \in 0 .. N /\ 1 .. 0 = {}
    OBVIOUS
  <2> QED BY <2>1, <1>1, <1>3
<1>5. ASSUME NEW k \in 1 .. N, h[k - 1] \in W[k - 1] PROVE h[k] \in W[k]
  <2>1. k \in 0 .. N /\ k - 1 \in 0 .. N
    OBVIOUS
  <2>2. \A i \in 1 .. k - 1 : R[i] \in ToSet(h[k - 1])
    BY <2>1, <1>3, <1>5
  <2>3. ASSUME NEW i \in 1 .. k PROVE R[i] \in ToSet(h[k])
    <3>1. i = k \/ i \in 1 .. k - 1
      OBVIOUS
    <3> QED BY <3>1, <2>2, <1>2
  <2> QED BY <2>1, <2>3, <1>1, <1>3
<1>6. \A k \in 0 .. N : h[k] \in W[k]
  BY <1>4, <1>5, Along
<1>7. N \in 1 .. N /\ N \in 0 .. N
  OBVIOUS
<1>8. PICK x \in Seq(S) : x = h[N] /\ x # <<>> /\ x[Len(x)] = R[N]
  BY <1>1, <1>2, <1>7
<1>9. \A i \in 1 .. N : R[i] \in ToSet(x)
  BY <1>3, <1>6, <1>7, <1>8
<1> QED BY <1>1, <1>8, <1>9 DEF Spread

\* The metadata before a cue is read there.
LEMMA NotesRead ==
    ASSUME NEW doc, Sound(doc), NEW n \in Nat, NEW format, NEW header,
           NEW C, NEW cs \in Seq(C), Len(cs) = n
    PROVE  /\ Notes(doc, format, n) \in Seq(Note)
           /\ Reads(Doc(format, header, Kept(doc, format, n), cs), Notes(doc, format, n),
                    Doc(format, header, Kept(doc, format, n + 1), cs))
<1>1. PICK md \in Seq(Metadatum) : md = doc.metadata
  BY DEF Sound, Document
<1>2. InOrder(md)
  BY <1>1 DEF Sound, InOrder
<1>3. CASE Own(doc, format)
  <2>1. Notes(doc, format, n) = Mapped(Here(md, n), TextOf) /\ Notes(doc, format, n) \in Seq(Note)
    BY <1>1, <1>3, MetadataTexts DEF Notes
  <2>2. PICK here \in Seq({m \in Metadatum : m.before = Len(cs)}) : here = Here(md, n)
    BY MetadataKinds
  <2>3. PICK low \in Seq(Metadatum) : low = Below(md, n)
    BY MetadataKinds
  <2>4. Reads(Doc("vtt", header, low, cs), Mapped(here, TextOf), Doc("vtt", header, low \o here, cs))
    BY MetadataRead
  <2>5. low \o here = Below(md, n + 1)
    BY <1>2, <2>2, <2>3, MetadataSplit
  <2>6. /\ Kept(doc, format, n) = low /\ Kept(doc, format, n + 1) = low \o here
        /\ format = "vtt"
    BY <1>1, <1>3, <2>3, <2>5 DEF Kept, Own
  <2> QED BY <2>1, <2>2, <2>4, <2>6
<1>4. CASE ~Own(doc, format)
  <2>1. Notes(doc, format, n) = <<>> /\ Kept(doc, format, n) = <<>> /\ Kept(doc, format, n + 1) = <<>>
    BY <1>4 DEF Notes, Kept
  <2>2. <<>> \in Seq(Note)
    BY EmptySeq
  <2>3. PICK b : b = Doc(format, header, <<>>, cs)
    OBVIOUS
  <2>4. Reads(b, <<>>, b)
    BY ReadsGo
  <2> QED BY <2>1, <2>2, <2>3, <2>4
<1> QED BY <1>3, <1>4

\* What is written inside a file is read as what it was written for.
LEMMA InsideReads ==
    ASSUME NEW doc, Sound(doc), NEW N \in Nat, N = Len(doc.cues), NEW format, NEW header,
           NEW R, NEW C, NEW cs \in Seq(C), Len(cs) = N,
           \A i \in 1 .. N : /\ R[i] \in Piece /\ ~Void(R[i])
                             /\ ~(format = "vtt" /\ IsMetadata(R[i]))
                             /\ cs[i] = ParseCue(R[i], format)
    PROVE  Reads(Doc(format, header, <<>>, <<>>), Inside(doc, format, R),
                 Doc(format, header, IF Own(doc, format) THEN doc.metadata ELSE <<>>, cs))
<1>1. PICK md \in Seq(Metadatum) : md = doc.metadata
  BY DEF Sound, Document
<1> DEFINE D(n, k) == Doc(format, header, Kept(doc, format, n), SubSeq(cs, 1, k))
<1>2. ASSUME NEW k \in 0 .. N
      PROVE  SubSeq(cs, 1, k) \in Seq(C) /\ Len(SubSeq(cs, 1, k)) = k
  <2>1. \A i \in 1 .. k : cs[i] \in C
    OBVIOUS
  <2>2. k \in Int
    OBVIOUS
  <2>3. /\ SubSeq(cs, 1, k) \in Seq(C)
        /\ Len(SubSeq(cs, 1, k)) = IF 1 <= k THEN k - 1 + 1 ELSE 0
    BY <2>1, <2>2, SubSeqProperties
  <2> QED BY <2>3
<1>3. ASSUME NEW n \in 0 .. N
      PROVE  /\ Notes(doc, format, n) \in Seq(Piece)
             /\ Reads(D(n, n), Notes(doc, format, n), D(n + 1, n))
  <2>1. n \in Nat
    OBVIOUS
  <2>2. PICK c \in Seq(C) : c = SubSeq(cs, 1, n) /\ Len(c) = n
    BY <1>2
  <2>3. /\ Notes(doc, format, n) \in Seq(Note)
        /\ Reads(Doc(format, header, Kept(doc, format, n), c), Notes(doc, format, n),
                 Doc(format, header, Kept(doc, format, n + 1), c))
    BY <2>1, <2>2, NotesRead
  <2>4. Notes(doc, format, n) \in Seq(Piece)
    <3>1. Note \subseteq Piece
      BY DEF Note
    <3> QED BY <2>3, <3>1, SeqMonotonic
  <2> QED BY <2>2, <2>3, <2>4
<1>4. PICK h : /\ FlattenSeq(Parts(doc, format, R)) = h[N] /\ h[0] = <<>>
               /\ \A i \in 0 .. N : h[i] \in Seq(Piece)
               /\ \A i \in 1 .. N : h[i] = Append(h[i - 1] \o Notes(doc, format, i - 1), R[i])
  <2>1. AllIn(doc, format, R, N, Piece) /\ DOMAIN doc.cues = 1 .. N
    <3>1. doc.cues \in Seq(Cue)
      BY DEF Sound, Document
    <3>2. AllIn(doc, format, R, N, Piece)
      BY <1>3 DEF AllIn
    <3> QED BY <3>1, <3>2
  <2>2. Unfolded(doc, format, R, N, Piece)
    BY <2>1, InsideUnfolds
  <2> QED BY <2>2 DEF Unfolded
<1>5. PICK b : b = Doc(format, header, <<>>, <<>>)
  OBVIOUS
<1>6. PICK W : W = [k \in 0 .. N |-> {s \in Seq(Piece) : Reads(b, s, D(k, k))}]
  OBVIOUS
<1>7. h[0] \in W[0]
  <2>1. 0 \in 0 .. N
    OBVIOUS
  <2>2. SubSeq(cs, 1, 0) = <<>>
    BY SubSeqEmpty
  <2>3. Below(md, 0) = <<>>
    BY MetadataEnds
  <2>4. D(0, 0) = b
    BY <1>1, <1>5, <2>2, <2>3 DEF Kept
  <2>5. Reads(b, <<>>, b)
    BY ReadsGo
  <2> QED BY <2>1, <2>4, <2>5, <1>4, <1>6
<1>8. ASSUME NEW k \in 1 .. N, h[k - 1] \in W[k - 1] PROVE h[k] \in W[k]
  <2>1. PICK j \in 0 .. N : j = k - 1 /\ j + 1 = k /\ k \in 0 .. N
    OBVIOUS
  <2>2. PICK x \in Seq(Piece), y \in Seq(Piece), r \in Piece :
           x = h[j] /\ y = Notes(doc, format, j) /\ r = R[k]
    BY <2>1, <1>3, <1>4
  <2>3. PICK e, f : e = D(j, j) /\ f = D(k, j)
    OBVIOUS
  <2>4. Reads(b, x, e) /\ Reads(e, y, f)
    BY <2>1, <2>2, <2>3, <1>3, <1>6, <1>8
  <2>5. Reads(b, x \o y, f)
    BY <2>4, ReadsOn
  <2>6. x \o y \in Seq(Piece)
    BY ConcatProperties
  <2>7. Reads(b, Append(x \o y, r), ParseBlock(f, r))
    BY <2>5, <2>6, ReadsGo
  <2>8. h[k] = Append(x \o y, r)
    BY <2>1, <2>2, <1>4
  <2>9. ParseBlock(f, r) = Doc(format, header, Kept(doc, format, k),
                               Append(SubSeq(cs, 1, j), ParseCue(r, format)))
    <3>1. ~Void(r) /\ ~(format = "vtt" /\ IsMetadata(r))
      BY <2>2
    <3>2. PICK w, c : w = Kept(doc, format, k) /\ c = SubSeq(cs, 1, j)
      OBVIOUS
    <3>3. ParseBlock(Doc(format, header, w, c), r)
            = Doc(format, header, w, Append(c, ParseCue(r, format)))
      BY <3>1 DEF Doc, ParseBlock
    <3> QED BY <3>2, <3>3, <2>3
  <2>10. Append(SubSeq(cs, 1, j), ParseCue(r, format)) = SubSeq(cs, 1, k)
    <3>1. PICK c \in C : c = cs[k] /\ c = ParseCue(r, format)
      BY <2>2
    <3>2. SubSeq(cs, 1, k) = SubSeq(cs, 1, j) \o <<c>>
      <4>1. 1 \in 1 .. Len(cs) /\ k \in 1 .. Len(cs)
        OBVIOUS
      <4>2. SubSeq(cs, 1, k) = SubSeq(cs, 1, k - 1) \o <<cs[k]>>
        BY <4>1, SubSeqRecursiveSecond
      <4> QED BY <4>2, <3>1, <2>1
    <3>3. PICK a \in Seq(C) : a = SubSeq(cs, 1, j)
      BY <1>2
    <3>4. Append(a, c) = a \o <<c>>
      BY AppendIsConcat
    <3> QED BY <3>1, <3>2, <3>3, <3>4
  <2>11. h[k] \in Seq(Piece)
    BY <2>1, <1>4
  <2> QED BY <2>1, <2>7, <2>8, <2>9, <2>10, <2>11, <1>6
<1>9. \A k \in 0 .. N : h[k] \in W[k]
  BY <1>7, <1>8, Along
<1>10. N \in 0 .. N
  OBVIOUS
<1>11. PICK x \in Seq(Piece), y \in Seq(Piece) : x = h[N] /\ y = Notes(doc, format, N)
  BY <1>3, <1>4, <1>10
<1>12. Reads(b, x, D(N, N)) /\ Reads(D(N, N), y, D(N + 1, N))
  BY <1>3, <1>6, <1>9, <1>10, <1>11
<1>13. Reads(b, x \o y, D(N + 1, N))
  <2>1. PICK e, f : e = D(N, N) /\ f = D(N + 1, N)
    OBVIOUS
  <2>2. Reads(b, x, e) /\ Reads(e, y, f)
    BY <1>12, <2>1
  <2>3. Reads(b, x \o y, f)
    BY <2>2, ReadsOn
  <2> QED BY <2>1, <2>3
<1>14. Inside(doc, format, R) = x \o y
  BY <1>4, <1>11 DEF Inside
<1>15. SubSeq(cs, 1, N) = cs
  BY SubSeqFull
<1>16. Below(md, N + 1) = md
  <2>1. \A i \in 1 .. Len(md) : md[i] \in Metadatum
    OBVIOUS
  <2>2. \A i \in 1 .. Len(md) : md[i].before \in Nat
    BY <2>1 DEF Metadatum
  <2>3. \A i \in 1 .. Len(md) : md[i].before <= N
    BY <1>1 DEF Sound
  <2>4. \A i \in 1 .. Len(md) : md[i].before < N + 1
    BY <2>2, <2>3
  <2>5. N + 1 \in Nat
    OBVIOUS
  <2> QED BY <2>4, <2>5, MetadataEnds
<1>17. D(N + 1, N) = Doc(format, header, IF Own(doc, format) THEN doc.metadata ELSE <<>>, cs)
  BY <1>1, <1>15, <1>16 DEF Kept
<1> QED BY <1>5, <1>13, <1>14, <1>17

\* The ends of two lists together, and what is in them.
Chain(a, b, c) ==
    /\ ToSet(a) \subseteq ToSet(c)
    /\ a # <<>> => c # <<>> /\ c[1] = a[1]
    /\ a = <<>> => c = b
    /\ b # <<>> => c # <<>> /\ c[Len(c)] = b[Len(b)]
    /\ b = <<>> => c = a

LEMMA Chained ==
    ASSUME NEW S, NEW a \in Seq(S), NEW b \in Seq(S)
    PROVE  a \o b \in Seq(S) /\ Chain(a, b, a \o b)
<1>1. PICK m \in Nat, n \in Nat : m = Len(a) /\ n = Len(b)
  OBVIOUS
<1>2. PICK c : c = a \o b
  OBVIOUS
<1>3. c \in Seq(S) /\ Len(c) = m + n
      /\ \A i \in 1 .. m + n : c[i] = IF i <= m THEN a[i] ELSE b[i - m]
  BY <1>1, <1>2, ConcatProperties
<1>4. ToSet(a) \subseteq ToSet(c)
  <2>1. ASSUME NEW i \in 1 .. m PROVE a[i] \in ToSet(c)
    <3>1. i \in 1 .. m + n /\ i <= m
      OBVIOUS
    <3>2. i \in DOMAIN c /\ c[i] = a[i]
      BY <3>1, <1>3
    <3> QED BY <3>2 DEF ToSet
  <2> QED BY <2>1, <1>1 DEF ToSet
<1>5. ASSUME a # <<>> PROVE c # <<>> /\ c[1] = a[1]
  <2>1. m # 0
    BY <1>1, <1>5
  <2>2. 1 \in 1 .. m + n /\ 1 <= m
    BY <2>1
  <2> QED BY <2>2, <1>3
<1>6. ASSUME b # <<>> PROVE c # <<>> /\ c[Len(c)] = b[Len(b)]
  <2>1. n # 0
    BY <1>1, <1>6
  <2>2. m + n \in 1 .. m + n /\ ~(m + n <= m) /\ m + n - m = n
    BY <2>1
  <2>3. c[m + n] = b[n]
    BY <2>2, <1>3
  <2> QED BY <2>2, <2>3, <1>1, <1>3
<1>7. (a = <<>> => c = b) /\ (b = <<>> => c = a)
  BY <1>2, ConcatEmptySeq
<1> QED BY <1>2, <1>3, <1>4, <1>5, <1>6, <1>7 DEF Chain

LEMMA Headed ==
    ASSUME NEW S, NEW x \in S, NEW a \in Seq(S)
    PROVE  /\ <<x>> \o a \in Seq(S) /\ Head(<<x>> \o a) = x /\ Tail(<<x>> \o a) = a
<1>1. PICK n \in Nat : n = Len(a)
  OBVIOUS
<1>2. PICK one \in Seq(S) : one = <<x>> /\ Len(one) = 1 /\ one[1] = x
  <2>1. <<x>> \in Seq(S) /\ Len(<<x>>) = 1 /\ <<x>>[1] = x
    OBVIOUS
  <2> QED BY <2>1
<1>3. PICK c : c = one \o a
  OBVIOUS
<1>4. c \in Seq(S) /\ Len(c) = 1 + n
      /\ \A i \in 1 .. 1 + n : c[i] = IF i <= 1 THEN one[i] ELSE a[i - 1]
  BY <1>1, <1>2, <1>3, ConcatProperties
<1>5. c # <<>> /\ c[1] = x
  <2>1. 1 \in 1 .. 1 + n /\ 1 <= 1
    OBVIOUS
  <2> QED BY <2>1, <1>2, <1>4
<1>6. PICK t : t = Tail(c)
  OBVIOUS
<1>7. t \in Seq(S) /\ Len(t) = n /\ \A i \in 1 .. n : t[i] = c[i + 1]
  <2>1. t \in Seq(S) /\ Len(t) = Len(c) - 1 /\ \A i \in 1 .. Len(t) : t[i] = c[i + 1]
    BY <1>4, <1>5, <1>6, HeadTailProperties
  <2> QED BY <2>1, <1>4
<1>8. \A i \in 1 .. n : t[i] = a[i]
  <2>1. ASSUME NEW i \in 1 .. n PROVE t[i] = a[i]
    <3>1. i + 1 \in 1 .. 1 + n /\ ~(i + 1 <= 1) /\ (i + 1) - 1 = i
      OBVIOUS
    <3> QED BY <3>1, <1>4, <1>7
  <2> QED BY <2>1
<1>9. t = a
  BY <1>1, <1>7, <1>8, SeqEqual
<1>10. Head(c) = x
  BY <1>4, <1>5
<1> QED BY <1>2, <1>3, <1>4, <1>6, <1>9, <1>10

\* What a file says of cue i: its name, its settings and its text.
NameIn(doc, i, format) ==
    IF format = "srt" THEN IF doc.format = "srt" THEN doc.cues[i].identifier ELSE <<Number(i)>>
    ELSE IF doc.format = "vtt" THEN doc.cues[i].identifier ELSE <<>>
SettingsIn(doc, i, format) == IF doc.format = format THEN doc.cues[i].settings ELSE <<>>
Shown(doc, i, translation, mode, order) ==
    IF mode = "translation" THEN CleanText(translation)
    ELSE IF order = "translation-first" THEN CleanText(translation) \o doc.cues[i].text
    ELSE doc.cues[i].text \o CleanText(translation)
\* An identifier that opens metadata where it is written.
Misread(doc, i, format) ==
    /\ Own(doc, format) /\ doc.cues[i].identifier # <<>>
    /\ doc.cues[i].identifier[1].kind = "note"

LEMMA NumberLine ==
    ASSUME NEW i \in Nat
    PROVE  /\ Number(i) \in Solid /\ ~White(Number(i)) /\ Number(i).margin = "none"
           /\ Number(i).kind = "number"
<1>1. Number(i) \in Said /\ Number(i).kind = "number" /\ Number(i).margin = "none"
  BY DEF Number, Line, Said, Margin
<1> QED BY <1>1, LineKinds DEF Solid, White

\* The name of a cue fits the file.
LEMMA NameFits ==
    ASSUME NEW doc, Sound(doc), NEW i \in 1 .. Len(doc.cues), NEW format \in Format
    PROVE  /\ NameIn(doc, i, format) \in Seq(Solid) /\ Named(NameIn(doc, i, format), format)
           /\ ~Misread(doc, i, format) /\ format = "vtt" =>
                 ~(NameIn(doc, i, format) # <<>> /\ NameIn(doc, i, format)[1].kind = "note")
<1>1. doc.format \in Format /\ doc.cues \in Seq(CueOf(doc.format))
  BY DEF Sound, Document
<1>2. doc.cues[i] \in CueOf(doc.format)
  BY <1>1
<1>3. doc.cues[i].identifier \in Seq(Solid) /\ Named(doc.cues[i].identifier, doc.format)
  BY <1>2 DEF CueOf, Cue
<1>4. CASE format = "srt"
  <2>1. CASE doc.format = "srt"
    <3>1. NameIn(doc, i, format) = doc.cues[i].identifier
      BY <1>4, <2>1 DEF NameIn
    <3> QED BY <1>3, <1>4, <2>1, <3>1
  <2>2. CASE doc.format # "srt"
    <3>1. i \in Nat
      BY <1>1
    <3>2. PICK x \in Solid : x = Number(i) /\ ~White(x) /\ x.margin = "none" /\ x.kind = "number"
      BY <3>1, NumberLine
    <3>3. PICK name \in Seq(Solid) : name = <<x>> /\ Len(name) = 1 /\ name[1] = x /\ name # <<>>
      <4>1. <<x>> \in Seq(Solid) /\ Len(<<x>>) = 1 /\ <<x>>[1] = x /\ <<x>> # <<>>
        OBVIOUS
      <4> QED BY <4>1
    <3>4. NameIn(doc, i, format) = name
      BY <1>4, <2>2, <3>2, <3>3 DEF NameIn
    <3>5. Named(name, format)
      BY <1>4, <3>2, <3>3 DEF Named
    <3> QED BY <1>4, <3>4, <3>5
  <2> QED BY <2>1, <2>2
<1>5. CASE format = "vtt"
  <2>1. CASE doc.format = "vtt"
    <3>1. NameIn(doc, i, format) = doc.cues[i].identifier
      BY <1>5, <2>1 DEF NameIn
    <3> QED BY <1>3, <1>5, <2>1, <3>1 DEF Misread, Own
  <2>2. CASE doc.format # "vtt"
    <3>1. NameIn(doc, i, format) = <<>>
      BY <1>5, <2>2 DEF NameIn
    <3>2. <<>> \in Seq(Solid)
      BY EmptySeq
    <3> QED BY <1>5, <3>1, <3>2 DEF Named
  <2> QED BY <2>1, <2>2
<1> QED BY <1>4, <1>5 DEF Format

\* The block of a cue in a file, and what is read of it.
LEMMA CueRendered ==
    ASSUME NEW doc, Sound(doc), NEW i \in 1 .. Len(doc.cues), NEW format \in Format,
           NEW translation, NEW mode, NEW order, NEW text \in Trimmed,
           text = Shown(doc, i, translation, mode, order)
    PROVE  LET b == RenderCue(doc, i, translation, format, mode, order)
           IN  /\ b \in Piece /\ Bounded(b) /\ ~Void(b)
               /\ ~Misread(doc, i, format) => ~(format = "vtt" /\ IsMetadata(b))
               /\ Len(text) <= SourceLimit => CueValid(b, format)
               /\ ParseCue(b, format) =
                     [identifier |-> NameIn(doc, i, format), start |-> doc.cues[i].start,
                      end |-> doc.cues[i].end, settings |-> SettingsIn(doc, i, format),
                      text |-> text]
<1>1. PICK cue \in CueOf(doc.format) : cue = doc.cues[i]
  BY DEF Sound
<1>2. /\ cue.start \in Time /\ cue.end \in Time /\ cue.start <= cue.end
      /\ cue.settings \in Seq(STRING)
  BY DEF CueOf, Cue
<1>3. PICK name \in Seq(Solid) :
         /\ name = NameIn(doc, i, format) /\ Named(name, format)
         /\ ~Misread(doc, i, format) /\ format = "vtt" => ~(name # <<>> /\ name[1].kind = "note")
  BY NameFits
<1>4. PICK given \in Seq(STRING) : given = SettingsIn(doc, i, format)
  <2>1. <<>> \in Seq(STRING)
    BY EmptySeq
  <2> QED BY <2>1, <1>1, <1>2 DEF SettingsIn
<1>5. PICK timing : timing = Timing(Timestamp(cue.start, format), Timestamp(cue.end, format), given)
  OBVIOUS
<1>6. PICK b : b = CueBlock(name, timing, text)
  OBVIOUS
<1>7. RenderCue(doc, i, translation, format, mode, order) = b
  BY <1>1, <1>3, <1>4, <1>5, <1>6 DEF RenderCue, CueBlock, NameIn, SettingsIn, Shown
<1>8. /\ b \in Piece /\ Bounded(b) /\ ~Void(b)
      /\ ~(name # <<>> /\ name[1].kind = "note") => ~IsMetadata(b)
      /\ Len(text) <= SourceLimit => CueValid(b, format)
      /\ ParseCue(b, format) = [identifier |-> name, start |-> cue.start, end |-> cue.end,
                                settings |-> given, text |-> text]
  <2>1. PICK start \in Time, end \in Time : start = cue.start /\ end = cue.end /\ start <= end
    BY <1>2
  <2> QED BY <2>1, <1>3, <1>5, <1>6, CueWritten
<1> QED BY <1>1, <1>3, <1>4, <1>7, <1>8

\* What stands after the last cue ends with something.
LEMMA NotesEnd ==
    ASSUME NEW doc, Sound(doc), Ended(doc), NEW format, NEW N \in Nat, N = Len(doc.cues)
    PROVE  \E y \in Seq(Note) :
              /\ y = Notes(doc, format, N)
              /\ y # <<>> => ~White(y[Len(y)][Len(y[Len(y)])])
<1>1. PICK md \in Seq(Metadatum) : md = doc.metadata
  BY DEF Sound, Document
<1>2. PICK n \in Nat : n = Len(md)
  OBVIOUS
<1>3. CASE ~Own(doc, format)
  <2>1. Notes(doc, format, N) = <<>>
    BY <1>3 DEF Notes
  <2> QED BY <2>1, EmptySeq
<1>4. CASE Own(doc, format)
  <2>1. PICK y \in Seq(Note) : y = Notes(doc, format, N) /\ y = Mapped(Here(md, N), TextOf)
    BY <1>1, <1>4, MetadataTexts DEF Notes
  <2>2. PICK here \in Seq(Metadatum), low \in Seq(Metadatum) :
           here = Here(md, N) /\ low = Below(md, N) /\ here \in Seq({m \in Metadatum : m.before = N})
    BY MetadataKinds
  <2>3. low \o here = md
    <3>1. InOrder(md)
      BY <1>1 DEF Sound, InOrder
    <3>2. low \o here = Below(md, N + 1)
      BY <2>2, <3>1, MetadataSplit
    <3>3. \A i \in 1 .. Len(md) : md[i].before < N + 1
      <4>1. \A i \in 1 .. Len(md) : md[i] \in Metadatum
        OBVIOUS
      <4>2. \A i \in 1 .. Len(md) : md[i].before \in Nat
        BY <4>1 DEF Metadatum
      <4>3. \A i \in 1 .. Len(md) : md[i].before <= N
        BY <1>1 DEF Sound
      <4> QED BY <4>2, <4>3
    <3>4. N + 1 \in Nat
      OBVIOUS
    <3> QED BY <3>2, <3>3, <3>4, MetadataEnds
  <2>4. PICK k \in Nat : k = Len(here) /\ DOMAIN here = 1 .. k
    OBVIOUS
  <2>5. DOMAIN y = 1 .. k /\ \A i \in 1 .. k : y[i] = TextOf[here[i]]
    BY <2>1, <2>2, <2>4 DEF Mapped
  <2>6. Len(y) = k
    BY <2>5
  <2>7. ASSUME y # <<>> PROVE ~White(y[k][Len(y[k])])
    <3>1. k \in 1 .. k /\ here # <<>>
      BY <2>4, <2>6, <2>7
    <3>2. here[k] \in Metadatum /\ here[k].before = N
      BY <3>1, <2>2, <2>4
    <3>3. y[k] = here[k].text
      BY <3>1, <3>2, <2>5 DEF TextOf
    <3>4. md # <<>> /\ md[Len(md)] = here[Len(here)]
      <4>1. Chain(low, here, low \o here)
        BY Chained
      <4> QED BY <4>1, <3>1, <2>3 DEF Chain
    <3>5. n # 0 /\ md[n] = here[k]
      BY <3>4, <1>2, <2>4
    <3>6. ~White(md[n].text[Len(md[n].text)])
      BY <3>2, <3>5, <1>1, <1>2 DEF Ended
    <3> QED BY <3>3, <3>5, <3>6
  <2> QED BY <2>1, <2>6, <2>7
<1> QED BY <1>3, <1>4

HeaderIn(doc, format) ==
    IF format = "vtt" THEN IF Own(doc, format) THEN doc.header ELSE <<Heading>> ELSE <<>>
Top(doc, format) == IF format = "vtt" THEN <<HeaderIn(doc, format)>> ELSE <<>>

LEMMA HeaderFits ==
    ASSUME NEW doc, Sound(doc)
    PROVE  /\ HeaderIn(doc, "vtt") \in Piece /\ HeaderIn(doc, "vtt")[1].kind = "webvtt"
           /\ ~White(HeaderIn(doc, "vtt")[1]) /\ HeaderIn(doc, "vtt")[1].margin = "none"
<1>1. CASE Own(doc, "vtt")
  <2>1. HeaderIn(doc, "vtt") = doc.header
    BY <1>1 DEF HeaderIn
  <2>2. doc.header \in Piece /\ doc.header[1].kind = "webvtt" /\ doc.header[1].margin = "none"
    BY <1>1 DEF Sound, Own
  <2> QED BY <2>1, <2>2 DEF White
<1>2. CASE ~Own(doc, "vtt")
  <2>1. HeaderIn(doc, "vtt") = <<Heading>>
    BY <1>2 DEF HeaderIn
  <2>2. Heading \in Said /\ Heading.kind = "webvtt" /\ Heading.margin = "none"
    BY DEF Heading, Line, Said, Margin
  <2>3. PICK x \in Solid : x = Heading /\ x.kind = "webvtt" /\ x.margin = "none" /\ ~White(x)
    BY <2>2, LineKinds DEF Solid, White
  <2>4. <<x>> \in Seq(Solid) /\ <<x>> # <<>> /\ <<x>>[1] = x
    OBVIOUS
  <2> QED BY <2>1, <2>3, <2>4 DEF Piece
<1> QED BY <1>1, <1>2

\* The blocks of a file, R those of the cues.
Rendered(doc, translations, format, mode, order) ==
    [i \in DOMAIN doc.cues |-> RenderCue(doc, i, translations[i], format, mode, order)]
Filed(doc, format, R) ==
    (Top(doc, format) \o FlattenSeq(Parts(doc, format, R))) \o Notes(doc, format, Len(doc.cues))

LEMMA RenderedLines ==
    ASSUME NEW doc, NEW translations, NEW format, NEW mode, NEW order, NEW R,
           R = Rendered(doc, translations, format, mode, order)
    PROVE  RenderSubtitle(doc, translations, format, mode, order)
             = [format |-> format, lines |-> Written(Filed(doc, format, R))]
<1>1. PICK parts : parts = [i \in DOMAIN doc.cues |->
         Notes(doc, format, i - 1) \o <<RenderCue(doc, i, translations[i], format, mode, order)>>]
  OBVIOUS
<1>2. Parts(doc, format, R) = parts
  <2>1. \A i \in DOMAIN doc.cues : R[i] = RenderCue(doc, i, translations[i], format, mode, order)
    BY DEF Rendered
  <2> QED BY <2>1, <1>1 DEF Parts
<1>3. RenderSubtitle(doc, translations, format, mode, order)
        = [format |-> format,
           lines |-> Written((Top(doc, format) \o FlattenSeq(parts))
                               \o Notes(doc, format, Len(doc.cues)))]
  BY <1>1, Zenon DEF RenderSubtitle, Written, Top, HeaderIn, Notes, Own
<1> QED BY <1>2, <1>3 DEF Filed

Made(doc, format, R, N, bs) ==
    /\ bs \in Seq(Piece) /\ bs # <<>>
    /\ ~White(bs[1][1]) /\ bs[1][1].margin = "none"
    /\ format = "vtt" => bs[1][1].kind = "webvtt"
    /\ ~White(bs[Len(bs)][Len(bs[Len(bs)])])
    /\ \A i \in 1 .. N : R[i] \in ToSet(bs)
    /\ (IF format = "vtt" THEN Head(bs) ELSE <<>>) = HeaderIn(doc, format)
    /\ (IF format = "vtt" THEN Tail(bs) ELSE bs) = Inside(doc, format, R)

\* They begin and end with something, and are what stands at the top and what
\* stands inside.
LEMMA FileParts ==
    ASSUME NEW doc, Sound(doc), Ended(doc), NEW N \in Nat \ {0}, N = Len(doc.cues),
           NEW format \in Format, NEW R,
           \A i \in 1 .. N : R[i] \in Piece /\ Bounded(R[i]),
           NEW bs, bs = Filed(doc, format, R)
    PROVE  Made(doc, format, R, N, bs)
<1>0. bs = (Top(doc, format) \o FlattenSeq(Parts(doc, format, R))) \o Notes(doc, format, N)
  BY DEF Filed
<1>1. DOMAIN doc.cues = 1 .. N
  BY DEF Sound
<1>2. \A n \in 0 .. N : Notes(doc, format, n) \in Seq(Note)
  <2>1. doc.metadata \in Seq(Metadatum)
    BY DEF Sound, Document
  <2>2. ASSUME NEW n \in 0 .. N PROVE Notes(doc, format, n) \in Seq(Note)
    <3>1. n \in Nat /\ <<>> \in Seq(Note)
      BY EmptySeq
    <3>2. MetadataAt(doc, n) \in Seq(Note)
      BY <2>1, <3>1, MetadataTexts
    <3> QED BY <3>1, <3>2 DEF Notes
  <2> QED BY <2>2
<1>3. PICK S : S = IF format = "srt" THEN {p \in Piece : Bounded(p)} ELSE Piece
  OBVIOUS
<1>4. S \subseteq Piece
  BY <1>3
<1>5. AllIn(doc, format, R, N, S)
  <2>1. \A i \in 1 .. N : R[i] \in S
    BY <1>3
  <2>2. ASSUME NEW n \in 0 .. N PROVE Notes(doc, format, n) \in Seq(S)
    <3>1. CASE format = "srt"
      <4>1. Notes(doc, format, n) = <<>>
        BY <3>1 DEF Notes, Own
      <4> QED BY <4>1, EmptySeq
    <3>2. CASE format # "srt"
      <4>1. Note \subseteq S
        BY <3>2, <1>3 DEF Note
      <4> QED BY <4>1, <1>2, SeqMonotonic
    <3> QED BY <3>1, <3>2
  <2> QED BY <2>1, <2>2 DEF AllIn
<1>6. PICK x \in Seq(S) :
         /\ x = FlattenSeq(Parts(doc, format, R)) /\ x # <<>> /\ x[Len(x)] = R[N]
         /\ \A i \in 1 .. N : R[i] \in ToSet(x)
  <2>1. PICK x : x = FlattenSeq(Parts(doc, format, R))
    OBVIOUS
  <2>2. x \in Seq(S) /\ Spread(R, N, x)
    BY <1>1, <1>5, <2>1, InsideHolds
  <2> QED BY <2>1, <2>2 DEF Spread
<1>7. x \in Seq(Piece)
  BY <1>4, SeqMonotonic
<1>8. PICK y \in Seq(Note) :
         y = Notes(doc, format, N) /\ (y # <<>> => ~White(y[Len(y)][Len(y[Len(y)])]))
  BY NotesEnd
<1>9. y \in Seq(Piece)
  <2>1. Note \subseteq Piece
    BY DEF Note
  <2> QED BY <2>1, SeqMonotonic
<1>10. PICK z : z = x \o y
  OBVIOUS
<1>11. /\ z \in Seq(Piece) /\ z # <<>> /\ z[1] = x[1] /\ ToSet(x) \subseteq ToSet(z)
       /\ y # <<>> => z[Len(z)] = y[Len(y)]
       /\ y = <<>> => z = x
  <2>1. x \o y \in Seq(Piece) /\ Chain(x, y, x \o y)
    BY <1>7, <1>9, Chained
  <2> QED BY <2>1, <1>6, <1>10 DEF Chain
<1>12. ~White(z[Len(z)][Len(z[Len(z)])])
  <2>1. CASE y # <<>>
    BY <2>1, <1>8, <1>11
  <2>2. CASE y = <<>>
    <3>1. z[Len(z)] = R[N] /\ N \in 1 .. N
      BY <2>2, <1>6, <1>11
    <3> QED BY <3>1 DEF Bounded
  <2> QED BY <2>1, <2>2
<1>13. Inside(doc, format, R) = z
  BY <1>6, <1>8, <1>10 DEF Inside
<1>14. CASE format = "srt"
  <2>1. Top(doc, format) = <<>> /\ HeaderIn(doc, format) = <<>>
    BY <1>14 DEF Top, HeaderIn
  <2>2. bs = z
    <3>1. <<>> \o x = x
      BY ConcatEmptySeq
    <3> QED BY <2>1, <3>1, <1>0, <1>6, <1>8, <1>10
  <2>3. Bounded(x[1])
    <3>1. x[1] \in S
      BY <1>6
    <3> QED BY <3>1, <1>3, <1>14
  <2> QED BY <2>1, <2>2, <2>3, <1>6, <1>11, <1>12, <1>13, <1>14 DEF Bounded, Made
<1>15. CASE format = "vtt"
  <2>1. PICK top \in Piece :
           /\ top = HeaderIn(doc, format) /\ top[1].kind = "webvtt" /\ ~White(top[1])
           /\ top[1].margin = "none"
    BY <1>15, HeaderFits
  <2>2. PICK w \in Seq(Piece) : w = <<top>>
    <3>1. <<top>> \in Seq(Piece)
      OBVIOUS
    <3> QED BY <3>1
  <2>3. bs = w \o z
    <3>1. Top(doc, format) = w
      BY <2>1, <2>2, <1>15 DEF Top
    <3>2. (w \o x) \o y = w \o (x \o y)
      BY <1>7, <1>9, ConcatAssociative, SMTT(20)
    <3> QED BY <3>1, <3>2, <1>0, <1>6, <1>8, <1>10
  <2>4. bs \in Seq(Piece) /\ Head(bs) = top /\ Tail(bs) = z
    BY <2>2, <2>3, <1>11, Headed
  <2>5. /\ ToSet(w) \subseteq ToSet(bs) /\ bs # <<>> /\ bs[1] = top /\ bs[Len(bs)] = z[Len(z)]
    <3>1. Chain(w, z, w \o z)
      BY <1>11, Chained
    <3>2. w # <<>> /\ w[1] = top
      BY <2>2
    <3> QED BY <3>1, <3>2, <2>3, <1>11 DEF Chain
  <2>6. ToSet(z) \subseteq ToSet(bs)
    <3>1. PICK n \in Nat : n = Len(z)
      BY <1>11
    <3>2. Len(bs) = 1 + n /\ \A i \in 1 .. n : bs[i + 1] = z[i]
      <4>1. Len(w) = 1
        BY <2>2
      <4>2. /\ Len(w \o z) = Len(w) + Len(z)
            /\ \A i \in 1 .. Len(w) + Len(z) :
                  (w \o z)[i] = IF i <= Len(w) THEN w[i] ELSE z[i - Len(w)]
        BY <1>11, ConcatProperties
      <4>3. Len(bs) = 1 + n
        BY <2>3, <3>1, <4>1, <4>2
      <4>4. ASSUME NEW i \in 1 .. n PROVE bs[i + 1] = z[i]
        <5>1. i + 1 \in 1 .. 1 + n /\ ~(i + 1 <= 1) /\ (i + 1) - 1 = i
          OBVIOUS
        <5> QED BY <5>1, <2>3, <3>1, <4>1, <4>2
      <4> QED BY <4>3, <4>4
    <3>3. ASSUME NEW i \in 1 .. n PROVE z[i] \in ToSet(bs)
      <4>1. i + 1 \in DOMAIN bs
        BY <2>4, <3>2
      <4> QED BY <4>1, <3>2 DEF ToSet
    <3>4. DOMAIN z = 1 .. n
      BY <3>1, <1>11
    <3> QED BY <3>3, <3>4 DEF ToSet
  <2> QED BY <2>1, <2>4, <2>5, <2>6, <1>6, <1>11, <1>12, <1>13, <1>15 DEF Made
<1> QED BY <1>14, <1>15 DEF Format

\* What is read of a file that was written.
CuesIn(doc, format, texts) ==
    [i \in DOMAIN doc.cues |->
        [identifier |-> NameIn(doc, i, format), start |-> doc.cues[i].start,
         end |-> doc.cues[i].end, settings |-> SettingsIn(doc, i, format), text |-> texts[i]]]
DocumentIn(doc, format, texts) ==
    Doc(format, HeaderIn(doc, format), IF Own(doc, format) THEN doc.metadata ELSE <<>>,
        CuesIn(doc, format, texts))
\* The texts a file shows, and the files in which each cue is read as the cue it was.
ShownIn(doc, translations, mode, order, texts) ==
    \A i \in DOMAIN doc.cues : texts[i] = Shown(doc, i, translations[i], mode, order)
Legible(doc, format, texts, file) ==
    /\ Len(doc.cues) <= CueLimit /\ ~(Len(file.lines) > FileLimit)
    /\ \A i \in DOMAIN doc.cues : ~Misread(doc, i, format) /\ Len(texts[i]) <= SourceLimit
ReadBack(doc, format, texts, file) ==
    /\ Readable(file) /\ file.format = format
    /\ ParseSubtitle(file) = DocumentIn(doc, format, texts)

LEMMA FileReadBack ==
    ASSUME NEW doc, Sound(doc), Ended(doc), doc.cues # <<>>,
           NEW format \in Format, NEW mode, NEW order, NEW translations,
           NEW texts \in [DOMAIN doc.cues -> Trimmed],
           ShownIn(doc, translations, mode, order, texts),
           NEW file, file = RenderSubtitle(doc, translations, format, mode, order),
           Legible(doc, format, texts, file)
    PROVE  ReadBack(doc, format, texts, file)
<1>1. PICK N \in Nat \ {0} : N = Len(doc.cues) /\ DOMAIN doc.cues = 1 .. N
  <2>1. doc.cues \in Seq(Cue) /\ doc.cues # <<>>
    BY DEF Sound, Document
  <2> QED BY <2>1
<1>0. /\ texts \in [1 .. N -> Trimmed]
      /\ \A i \in 1 .. N : texts[i] = Shown(doc, i, translations[i], mode, order)
      /\ \A i \in 1 .. N : ~Misread(doc, i, format) /\ Len(texts[i]) <= SourceLimit
      /\ N <= CueLimit /\ ~(Len(file.lines) > FileLimit)
  BY <1>1 DEF ShownIn, Legible
<1>2. PICK R : R = Rendered(doc, translations, format, mode, order)
  OBVIOUS
<1>3. PICK bs : bs = Filed(doc, format, R)
  OBVIOUS
<1>4. file.format = format /\ file.lines = Written(bs)
  <2>1. file = [format |-> format, lines |-> Written(bs)]
    BY <1>2, <1>3, RenderedLines
  <2> QED BY <2>1
<1>5. ASSUME NEW i \in 1 .. N
      PROVE  /\ R[i] \in Piece /\ Bounded(R[i]) /\ ~Void(R[i])
             /\ ~(format = "vtt" /\ IsMetadata(R[i]))
             /\ CueValid(R[i], format)
             /\ ParseCue(R[i], format) = CuesIn(doc, format, texts)[i]
  <2>1. PICK t \in Trimmed : t = texts[i]
    BY <1>0
  <2>2. i \in 1 .. Len(doc.cues) /\ t = Shown(doc, i, translations[i], mode, order)
    BY <1>1, <1>0, <2>1
  <2>3. PICK b : b = RenderCue(doc, i, translations[i], format, mode, order)
    OBVIOUS
  <2>4. /\ b \in Piece /\ Bounded(b) /\ ~Void(b)
        /\ ~Misread(doc, i, format) => ~(format = "vtt" /\ IsMetadata(b))
        /\ Len(t) <= SourceLimit => CueValid(b, format)
        /\ ParseCue(b, format) =
              [identifier |-> NameIn(doc, i, format), start |-> doc.cues[i].start,
               end |-> doc.cues[i].end, settings |-> SettingsIn(doc, i, format), text |-> t]
    BY <2>2, <2>3, CueRendered
  <2>5. R[i] = b
    BY <1>1, <1>2, <2>3 DEF Rendered
  <2>6. CuesIn(doc, format, texts)[i] =
           [identifier |-> NameIn(doc, i, format), start |-> doc.cues[i].start,
            end |-> doc.cues[i].end, settings |-> SettingsIn(doc, i, format), text |-> t]
    BY <1>1, <2>1 DEF CuesIn
  <2> QED BY <1>0, <2>1, <2>4, <2>5, <2>6
<1>6. /\ bs \in Seq(Piece) /\ bs # <<>>
      /\ ~White(bs[1][1]) /\ bs[1][1].margin = "none"
      /\ format = "vtt" => bs[1][1].kind = "webvtt"
      /\ ~White(bs[Len(bs)][Len(bs[Len(bs)])])
      /\ \A i \in 1 .. N : R[i] \in ToSet(bs)
      /\ (IF format = "vtt" THEN Head(bs) ELSE <<>>) = HeaderIn(doc, format)
      /\ (IF format = "vtt" THEN Tail(bs) ELSE bs) = Inside(doc, format, R)
  <2>1. \A i \in 1 .. N : R[i] \in Piece /\ Bounded(R[i])
    BY <1>5
  <2>2. Made(doc, format, R, N, bs)
    BY <2>1, <1>1, <1>3, FileParts
  <2> QED BY <2>2 DEF Made
<1>7. \A i \in 1 .. N : CueValid(R[i], format)
  BY <1>5
<1>8. PICK S : S = {p \in Piece : Allowed(p, format)}
  OBVIOUS
<1>9. AllIn(doc, format, R, N, S)
  <2>1. \A i \in 1 .. N : R[i] \in S
    BY <1>5, <1>7, <1>8 DEF Allowed
  <2>2. ASSUME NEW n \in 0 .. N PROVE Notes(doc, format, n) \in Seq(S)
    <3>1. CASE ~Own(doc, format)
      <4>1. Notes(doc, format, n) = <<>>
        BY <3>1 DEF Notes
      <4> QED BY <4>1, EmptySeq
    <3>2. CASE Own(doc, format)
      <4>1. Note \subseteq S
        BY <3>2, <1>8 DEF Note, Own, Allowed
      <4>2. doc.metadata \in Seq(Metadatum) /\ n \in Nat
        BY DEF Sound, Document
      <4>3. MetadataAt(doc, n) \in Seq(Note)
        BY <4>2, MetadataTexts
      <4>4. MetadataAt(doc, n) \in Seq(S)
        BY <4>1, <4>3, SeqMonotonic
      <4> QED BY <3>2, <4>4 DEF Notes
    <3> QED BY <3>1, <3>2
  <2> QED BY <2>1, <2>2 DEF AllIn
<1>10. PICK body \in Seq(S) : body = Inside(doc, format, R)
  <2>1. PICK x : x = FlattenSeq(Parts(doc, format, R))
    OBVIOUS
  <2>2. x \in Seq(S) /\ Spread(R, N, x)
    BY <1>1, <1>9, <2>1, InsideHolds
  <2>3. N \in 0 .. N
    OBVIOUS
  <2>4. PICK y \in Seq(S) : y = Notes(doc, format, N)
    BY <2>3, <1>9 DEF AllIn
  <2>5. x \o y \in Seq(S)
    BY <2>2, ConcatProperties
  <2>6. Inside(doc, format, R) = x \o y
    BY <1>1, <2>1, <2>4 DEF Inside
  <2> QED BY <2>5, <2>6
<1>11. /\ Blocks(Trim(file.lines)) = bs
       /\ Trim(file.lines) # <<>> /\ Trim(file.lines)[1] = bs[1][1]
       /\ Len(file.lines) <= FileLimit
  <2>1. PICK size : size = Len(file.lines)
    OBVIOUS
  <2>2. /\ Blocks(Trim(file.lines)) = bs
        /\ Trim(file.lines) # <<>> /\ Trim(file.lines)[1] = bs[1][1]
        /\ size \in Nat
    BY <2>1, <1>4, <1>6, BlocksReadBack
  <2>3. size <= FileLimit
    BY <2>1, <2>2, <1>0, SubtitleAssumption
  <2> QED BY <2>1, <2>2, <2>3
<1>12. Body(file) = body
  BY <1>4, <1>6, <1>10, <1>11 DEF Body
<1>13. Start(file) = Doc(format, HeaderIn(doc, format), <<>>, <<>>)
  BY <1>4, <1>6, <1>11 DEF Start, Doc
<1>14. PICK cs, C : cs = CuesIn(doc, format, texts) /\ C = {cs[i] : i \in 1 .. N}
  OBVIOUS
<1>15. cs \in Seq(C) /\ Len(cs) = N
  <2>1. cs \in [1 .. N -> C]
    <3>1. cs = [i \in 1 .. N |-> cs[i]]
      BY <1>1, <1>14 DEF CuesIn
    <3>2. \A i \in 1 .. N : cs[i] \in C
      BY <1>14
    <3> QED BY <3>1, <3>2
  <2> QED BY <2>1, Listed
<1>16. ParseSubtitle(file) = DocumentIn(doc, format, texts)
  <2>1. \A i \in 1 .. N : /\ R[i] \in Piece /\ ~Void(R[i])
                          /\ ~(format = "vtt" /\ IsMetadata(R[i]))
                          /\ cs[i] = ParseCue(R[i], format)
    BY <1>5, <1>14
  <2>2. PICK header : header = HeaderIn(doc, format)
    OBVIOUS
  <2>3. Reads(Doc(format, header, <<>>, <<>>), Inside(doc, format, R),
              Doc(format, header, IF Own(doc, format) THEN doc.metadata ELSE <<>>, cs))
    BY <2>1, <1>1, <1>15, InsideReads
  <2>4. PICK d : d = DocumentIn(doc, format, texts)
    OBVIOUS
  <2>5. Reads(Start(file), Body(file), d)
    BY <2>2, <2>3, <2>4, <1>10, <1>12, <1>13, <1>14 DEF DocumentIn
  <2>6. Body(file) \in Seq(S)
    BY <1>12
  <2> QED BY <2>4, <2>5, <2>6, ParseReads
<1>17. Readable(file)
  <2>1. file.format = "vtt" => Trim(file.lines)[1].kind = "webvtt"
    BY <1>4, <1>6, <1>11
  <2>2. ASSUME NEW b \in ToSet(Body(file))
        PROVE  Void(b) \/ (file.format = "vtt" /\ IsMetadata(b)) \/ CueValid(b, file.format)
    <3>1. b \in S
      BY <1>12, <2>2 DEF ToSet
    <3> QED BY <3>1, <1>4, <1>8 DEF Allowed
  <2>3. Len(ParseSubtitle(file).cues) \in 1 .. CueLimit
    <3>1. ParseSubtitle(file).cues = cs
      BY <1>14, <1>16 DEF DocumentIn, Doc
    <3> QED BY <3>1, <1>0, <1>15, SubtitleAssumption
  <2> QED BY <2>1, <2>2, <2>3, <1>11 DEF Readable
<1> QED BY <1>4, <1>16, <1>17 DEF ReadBack

-----------------------------------------------------------------------------
(* Exports.                                                                *)

\* Of translations, a file holds the normal form.
LEMMA RenderSame ==
    ASSUME NEW doc, NEW a, NEW b, \A i \in DOMAIN doc.cues : CleanText(a[i]) = CleanText(b[i]),
           NEW format, NEW mode, NEW order
    PROVE  RenderSubtitle(doc, a, format, mode, order) = RenderSubtitle(doc, b, format, mode, order)
<1>1. PICK R, Q : /\ R = Rendered(doc, a, format, mode, order)
                  /\ Q = Rendered(doc, b, format, mode, order)
  OBVIOUS
<1>2. ASSUME NEW i \in DOMAIN doc.cues
      PROVE  RenderCue(doc, i, a[i], format, mode, order) = RenderCue(doc, i, b[i], format, mode, order)
  BY DEF RenderCue
<1>3. R = Q
  BY <1>1, <1>2 DEF Rendered
<1>4. RenderSubtitle(doc, a, format, mode, order)
        = [format |-> format, lines |-> Written(Filed(doc, format, R))]
  BY <1>1, RenderedLines
<1>5. RenderSubtitle(doc, b, format, mode, order)
        = [format |-> format, lines |-> Written(Filed(doc, format, Q))]
  BY <1>1, RenderedLines
<1> QED BY <1>3, <1>4, <1>5

\* What is known of the task's document: it was read.
DocumentInv ==
    /\ Sound(document) /\ Ended(document) /\ document.cues # <<>>
    /\ Len(cues) = Len(document.cues) /\ Len(document.cues) <= CueLimit

\* Translations that can be exported, and their normal form.
LEMMA ExportTexts ==
    ASSUME DocumentInv, NEW ts \in Translations, Exportable(ts)
    PROVE  LET N == Len(document.cues)
           IN  /\ N \in Nat \ {0} /\ DOMAIN ts = 1 .. N /\ DOMAIN document.cues = 1 .. N
               /\ \A i \in 1 .. N :
                     /\ Tidy(CleanText(ts[i])) /\ Tidy(document.cues[i].text)
                     /\ CleanText(CleanText(ts[i])) = CleanText(ts[i])
<1>1. PICK N \in Nat \ {0} : N = Len(document.cues) /\ DOMAIN document.cues = 1 .. N
  <2>1. document.cues \in Seq(Cue) /\ document.cues # <<>>
    BY DEF DocumentInv, Sound, Document
  <2> QED BY <2>1
<1>2. ts \in Seq(Text) /\ Len(ts) = N
  BY <1>1, ChunkingAssumption DEF Exportable, DocumentInv, Text
<1>3. DOMAIN ts = 1 .. N
  BY <1>2
<1>4. ASSUME NEW i \in 1 .. N
      PROVE  /\ Tidy(CleanText(ts[i])) /\ Tidy(document.cues[i].text)
             /\ CleanText(CleanText(ts[i])) = CleanText(ts[i])
  <2>1. PICK text \in Text : text = ts[i]
    BY <1>2
  <2>2. PICK c \in Seq(Neat) : c = CleanText(text)
    BY CleanNeat
  <2>3. Trim(c) # <<>>
    BY <1>3, <2>1, <2>2 DEF Exportable, Translated
  <2>4. c # <<>>
    <3>1. CASE c = <<>>
      <4>1. \A k \in 1 .. Len(c) : White(c[k])
        BY <3>1
      <4> QED BY <4>1, <2>3, TrimNothing
    <3> QED BY <3>1
  <2>5. Tidy(c)
    BY <2>4, NeatTidy
  <2>6. c \in Text
    BY Solids
  <2>7. CleanText(c) = c
    BY <2>6, CleanNeat
  <2>8. document.cues[i] \in Cue
    BY <1>1 DEF DocumentInv, Sound, Document
  <2>9. PICK t \in Trimmed : t = document.cues[i].text
    BY <2>8 DEF Cue
  <2>10. Tidy(t)
    BY TrimmedTidy
  <2> QED BY <2>1, <2>2, <2>5, <2>7, <2>9, <2>10
<1> QED BY <1>1, <1>3, <1>4

\* An export that can be read is the document again.
LEMMA ExportRead ==
    ASSUME DocumentInv, NEW ts \in Translations, Exportable(ts), NEW format \in Format,
           NEW mode, NEW order,
           NEW texts, texts = [i \in DOMAIN ts |-> Shown(document, i, ts[i], mode, order)],
           NEW file, file = Export(ts, format, mode, order), ~Unreadable(file, texts)
    PROVE  ReadAs(file, texts) /\ ParseSubtitle(file) = DocumentIn(document, format, texts)
<1>1. PICK N \in Nat \ {0} :
         /\ N = Len(document.cues) /\ DOMAIN ts = 1 .. N /\ DOMAIN document.cues = 1 .. N
         /\ \A i \in 1 .. N : Tidy(CleanText(ts[i])) /\ Tidy(document.cues[i].text)
  <2>1. LET N == Len(document.cues)
        IN  /\ N \in Nat \ {0} /\ DOMAIN ts = 1 .. N /\ DOMAIN document.cues = 1 .. N
            /\ \A i \in 1 .. N :
                  /\ Tidy(CleanText(ts[i])) /\ Tidy(document.cues[i].text)
                  /\ CleanText(CleanText(ts[i])) = CleanText(ts[i])
    BY ExportTexts
  <2> QED BY <2>1
<1>2. texts \in [1 .. N -> Trimmed]
  <2>1. ASSUME NEW i \in 1 .. N PROVE Shown(document, i, ts[i], mode, order) \in Trimmed
    <3>1. PICK s, t : s = CleanText(ts[i]) /\ t = document.cues[i].text /\ Tidy(s) /\ Tidy(t)
      BY <1>1
    <3>2. Tidy(s \o t)
      BY <3>1, TidyJoined
    <3>3. Tidy(t \o s)
      BY <3>1, TidyJoined
    <3>4. PICK x : x = Shown(document, i, ts[i], mode, order)
      OBVIOUS
    <3>5. Tidy(x)
      BY <3>1, <3>2, <3>3, <3>4 DEF Shown
    <3>6. ~Marked(x)
      BY <1>1, <3>4 DEF Unreadable
    <3> QED BY <3>4, <3>5, <3>6, TidyTrimmed
  <2> QED BY <2>1, <1>1
<1>3. \A i \in 1 .. N : texts[i] = Shown(document, i, ts[i], mode, order)
  BY <1>1
<1>4. PICK doc : doc = document
  OBVIOUS
<1>5. Sound(doc) /\ Ended(doc) /\ N = Len(doc.cues) /\ DOMAIN doc.cues = 1 .. N
  BY <1>1, <1>4 DEF DocumentInv
<1>6. file = RenderSubtitle(doc, ts, format, mode, order)
  BY <1>4 DEF Export
<1>7. file.format = format
  <2>1. PICK R : R = Rendered(doc, ts, format, mode, order)
    OBVIOUS
  <2>2. file = [format |-> format, lines |-> Written(Filed(doc, format, R))]
    BY <2>1, <1>6, RenderedLines
  <2> QED BY <2>2
<1>8. \A i \in 1 .. N : ~Misread(doc, i, format)
  BY <1>1, <1>4, <1>7 DEF Misread, Own, Unreadable
<1>9. N <= CueLimit /\ ~(Len(file.lines) > FileLimit)
      /\ \A i \in 1 .. N : Len(texts[i]) <= SourceLimit
  <2>1. ~(Len(file.lines) > FileLimit) /\ \A i \in 1 .. N : ~(Len(texts[i]) > SourceLimit)
    BY <1>2 DEF Unreadable
  <2>2. \A i \in 1 .. N : Len(texts[i]) \in Nat
    BY <1>2 DEF Trimmed, Piece
  <2>3. \A i \in 1 .. N : Len(texts[i]) <= SourceLimit
    <3>1. ASSUME NEW i \in 1 .. N PROVE Len(texts[i]) <= SourceLimit
      <4>1. PICK size \in Nat : size = Len(texts[i]) /\ ~(size > SourceLimit)
        BY <2>1, <2>2
      <4>2. size <= SourceLimit
        BY <4>1, SubtitleAssumption
      <4> QED BY <4>1, <4>2
    <3> QED BY <3>1
  <2>4. N <= CueLimit
    BY <1>1 DEF DocumentInv
  <2> QED BY <2>1, <2>3, <2>4
<1>10. Readable(file) /\ ParseSubtitle(file) = DocumentIn(doc, format, texts)
  <2>1. ShownIn(doc, ts, mode, order, texts)
    BY <1>3, <1>4, <1>5 DEF ShownIn
  <2>2. Legible(doc, format, texts, file)
    BY <1>5, <1>8, <1>9 DEF Legible
  <2>3. doc.cues # <<>> /\ texts \in [DOMAIN doc.cues -> Trimmed]
    BY <1>2, <1>4, <1>5 DEF DocumentInv
  <2>4. ReadBack(doc, format, texts, file)
    BY <2>1, <2>2, <2>3, <1>5, <1>6, FileReadBack
  <2> QED BY <2>4 DEF ReadBack
<1>11. PICK read : read = ParseSubtitle(file)
  OBVIOUS
<1>12. /\ read.cues = CuesIn(doc, format, texts) /\ read.header = HeaderIn(doc, format)
       /\ read.metadata = IF Own(doc, format) THEN doc.metadata ELSE <<>>
  BY <1>10, <1>11 DEF DocumentIn, Doc
<1>13. DOMAIN read.cues = 1 .. N
       /\ \A i \in 1 .. N : /\ read.cues[i].identifier = NameIn(doc, i, format)
                            /\ read.cues[i].start = doc.cues[i].start
                            /\ read.cues[i].end = doc.cues[i].end
                            /\ read.cues[i].settings = SettingsIn(doc, i, format)
                            /\ read.cues[i].text = texts[i]
  BY <1>5, <1>12 DEF CuesIn
<1>14. Len(read.cues) = N
  <2>1. PICK cs, C : cs = read.cues /\ C = {cs[i] : i \in 1 .. N}
    OBVIOUS
  <2>2. cs = [i \in 1 .. N |-> cs[i]]
    BY <2>1, <1>5, <1>12 DEF CuesIn
  <2>3. cs \in [1 .. N -> C]
    <3>1. \A i \in 1 .. N : cs[i] \in C
      BY <2>1
    <3> QED BY <3>1, <2>2
  <2>4. Len(cs) = N
    BY <2>3, Listed
  <2> QED BY <2>1, <2>4
<1>15. Aligned(doc, read)
  BY <1>5, <1>13, <1>14 DEF Aligned
<1>16. doc.format \in Format
  BY <1>5 DEF Sound, Document
<1>17. DOMAIN texts = 1 .. N
  BY <1>2
<1>18. CASE format = doc.format
  <2>1. read.header = doc.header /\ read.metadata = doc.metadata
    <3>1. CASE format = "vtt"
      BY <3>1, <1>12, <1>18 DEF HeaderIn, Own
    <3>2. CASE format # "vtt"
      <4>1. doc.header = <<>> /\ doc.metadata = <<>>
        BY <3>2, <1>5, <1>18 DEF Sound
      <4> QED BY <4>1, <3>2, <1>12 DEF HeaderIn, Own
    <3> QED BY <3>1, <3>2
  <2>2. ASSUME NEW i \in 1 .. N
        PROVE  /\ NameIn(doc, i, format) = doc.cues[i].identifier
               /\ SettingsIn(doc, i, format) = doc.cues[i].settings
    BY <1>16, <1>18 DEF NameIn, SettingsIn, Format
  <2> QED BY <2>1, <2>2, <1>4, <1>7, <1>10, <1>11, <1>13, <1>15, <1>17, <1>18, SMTT(20) DEF ReadAs
<1>19. CASE format # doc.format
  <2>1. read.metadata = <<>>
    BY <1>12, <1>19 DEF Own
  <2>2. ASSUME NEW i \in 1 .. N
        PROVE  NameIn(doc, i, format) \in {<<>>, <<Number(i)>>} /\ SettingsIn(doc, i, format) = <<>>
    BY <1>16, <1>19 DEF NameIn, SettingsIn, Format
  <2> QED BY <2>1, <2>2, <1>4, <1>7, <1>10, <1>11, <1>13, <1>15, <1>17, <1>19 DEF ReadAs
<1> QED BY <1>18, <1>19

\* An export of a translation, and of both languages, is the document again, and
\* merging the first with the original gives the second.
LEMMA ExportsFine ==
    ASSUME DocumentInv
    PROVE  ExportReadsBack
<1> SUFFICES ASSUME NEW ts \in Translations, NEW format \in Format, NEW order \in Order,
                    Exportable(ts)
             PROVE  LET new == [i \in DOMAIN ts |-> CleanText(ts[i])]
                        alone == Export(ts, format, "translation", order)
                        both == Export(ts, format, "bilingual", order)
                        texts == [i \in DOMAIN ts |->
                                    IF order = "translation-first"
                                    THEN new[i] \o document.cues[i].text
                                    ELSE document.cues[i].text \o new[i]]
                    IN  /\ ~Unreadable(alone, new) =>
                              /\ ReadAs(alone, new)
                              /\ \A f \in Format :
                                    MergeSubtitles(document, ParseSubtitle(alone), f, order)
                                      = Export(ts, f, "bilingual", order)
                        /\ ~Unreadable(both, texts) => ReadAs(both, texts)
  BY DEF ExportReadsBack
<1>1. PICK new : new = [i \in DOMAIN ts |-> CleanText(ts[i])]
  OBVIOUS
<1>2. PICK alone : alone = Export(ts, format, "translation", order)
  OBVIOUS
<1>3. PICK both : both = Export(ts, format, "bilingual", order)
  OBVIOUS
<1>4. PICK texts : texts = [i \in DOMAIN ts |->
                              IF order = "translation-first"
                              THEN new[i] \o document.cues[i].text
                              ELSE document.cues[i].text \o new[i]]
  OBVIOUS
<1>5. new = [i \in DOMAIN ts |-> Shown(document, i, ts[i], "translation", order)]
  BY <1>1 DEF Shown
<1>6. texts = [i \in DOMAIN ts |-> Shown(document, i, ts[i], "bilingual", order)]
  <2>1. \A i \in DOMAIN ts : new[i] = CleanText(ts[i])
    BY <1>1
  <2> QED BY <2>1, <1>4 DEF Shown
<1>7. ~Unreadable(alone, new) =>
         ReadAs(alone, new) /\ ParseSubtitle(alone) = DocumentIn(document, format, new)
  BY <1>2, <1>5, ExportRead
<1>8. ~Unreadable(both, texts) => ReadAs(both, texts)
  BY <1>3, <1>6, ExportRead
<1>9. ASSUME ~Unreadable(alone, new), NEW f \in Format
      PROVE  MergeSubtitles(document, ParseSubtitle(alone), f, order)
               = Export(ts, f, "bilingual", order)
  <2>1. PICK N \in Nat :
           /\ DOMAIN ts = 1 .. N /\ DOMAIN document.cues = 1 .. N
           /\ \A i \in 1 .. N : CleanText(CleanText(ts[i])) = CleanText(ts[i])
    <3>1. LET N == Len(document.cues)
          IN  /\ N \in Nat \ {0} /\ DOMAIN ts = 1 .. N /\ DOMAIN document.cues = 1 .. N
              /\ \A i \in 1 .. N :
                    /\ Tidy(CleanText(ts[i])) /\ Tidy(document.cues[i].text)
                    /\ CleanText(CleanText(ts[i])) = CleanText(ts[i])
      BY ExportTexts
    <3> QED BY <3>1
  <2>2. PICK read : read = ParseSubtitle(alone)
    OBVIOUS
  <2>3. read.cues = CuesIn(document, format, new)
    BY <1>7, <1>9, <2>2 DEF DocumentIn, Doc
  <2>4. [i \in DOMAIN read.cues |-> read.cues[i].text] = new
    <3>1. DOMAIN read.cues = 1 .. N /\ \A i \in 1 .. N : read.cues[i].text = new[i]
      BY <2>1, <2>3 DEF CuesIn
    <3>2. new = [i \in 1 .. N |-> new[i]]
      BY <1>1, <2>1
    <3> QED BY <3>1, <3>2
  <2>5. MergeSubtitles(document, read, f, order)
          = RenderSubtitle(document, new, f, "bilingual", order)
    BY <2>4 DEF MergeSubtitles
  <2>6. \A i \in DOMAIN document.cues : CleanText(new[i]) = CleanText(ts[i])
    BY <1>1, <2>1
  <2>7. RenderSubtitle(document, new, f, "bilingual", order)
          = RenderSubtitle(document, ts, f, "bilingual", order)
    BY <2>6, RenderSame
  <2> QED BY <2>2, <2>5, <2>7 DEF Export
<1> QED BY <1>1, <1>2, <1>3, <1>4, <1>7, <1>8, <1>9

-----------------------------------------------------------------------------
(* Measures.                                                               *)

\* A text is as long as its lines with the breaks between them.
LEMMA TextLengthNat ==
    ASSUME NEW text \in Text \ {<<>>} PROVE TextLength(text) \in Nat
<1>1. PICK n \in Nat \ {0} : n = Len(text)
  BY DEF Text
<1>2. \A i \in 1 .. n : LineLength(text[i]) \in Nat
  <2>1. \A i \in 1 .. n : text[i] \in Lines(Word)
    BY <1>1 DEF Text
  <2> QED BY <2>1, SMTT(20) DEF LineLength, Lines, Word
<1> DEFINE F(f) == [i \in 0 .. n |-> IF i = 0 THEN -1 ELSE f[i - 1] + LineLength(text[i]) + 1]
           sum == CHOOSE f : f = F(f)
<1>3. PICK S : S = [i \in 0 .. n |-> IF i = 0 THEN {-1} ELSE Nat]
  OBVIOUS
<1>4. PICK step : step = [i \in 1 .. n |-> [w \in Nat \cup {-1} |-> w + LineLength(text[i]) + 1]]
  OBVIOUS
<1>5. /\ \A i \in 1 .. n : i \in 0 .. n /\ i - 1 \in 0 .. n /\ i # 0
      /\ S[0] = {-1} /\ \A i \in 1 .. n : S[i] = Nat
      /\ \A i \in 0 .. n : S[i] \subseteq Nat \cup {-1}
  BY <1>3
<1>6. ASSUME NEW i \in 1 .. n, NEW w \in Nat \cup {-1} PROVE w + LineLength(text[i]) + 1 \in Nat
  BY <1>2
<1>7. -1 \in S[0] /\ \A i \in 1 .. n : \A w \in S[i - 1] : step[i][w] \in S[i]
  BY <1>4, <1>5, <1>6
<1>8. PICK b \in S[0] : b = -1
  BY <1>7
<1>9. PICK g : Goes(g, n, b, step) /\ \A i \in 0 .. n : g[i] \in S[i]
  BY <1>7, Recursion
<1>10. /\ g = [i \in 0 .. n |-> g[i]] /\ g[0] = -1
       /\ \A i \in 1 .. n : g[i] = step[i][g[i - 1]] /\ g[i - 1] \in Nat \cup {-1}
  BY <1>5, <1>8, <1>9 DEF Goes
<1>11. g = F(g)
  <2>1. ASSUME NEW i \in 1 .. n PROVE g[i] = g[i - 1] + LineLength(text[i]) + 1
    BY <1>4, <1>10
  <2>2. \A i \in 0 .. n : g[i] = IF i = 0 THEN -1 ELSE g[i - 1] + LineLength(text[i]) + 1
    BY <2>1, <1>10
  <2> QED BY <2>2, <1>10
<1>12. sum = F(sum)
  BY <1>11
<1>13. TextLength(text) = sum[n]
  BY <1>1 DEF TextLength
<1>14. PICK h : h = sum
  OBVIOUS
<1>15. h[0] = -1 /\ \A i \in 1 .. n : h[i] = h[i - 1] + LineLength(text[i]) + 1
  <2>1. h = F(h)
    BY <1>12, <1>14
  <2>2. \A i \in 0 .. n : h[i] = IF i = 0 THEN -1 ELSE h[i - 1] + LineLength(text[i]) + 1
    BY <2>1
  <2> QED BY <2>2
<1> HIDE DEF sum
<1>16. \A i \in 0 .. n : h[i] \in S[i]
  <2>1. ASSUME NEW i \in 1 .. n, h[i - 1] \in S[i - 1] PROVE h[i] \in S[i]
    <3>1. h[i - 1] \in Nat \cup {-1} /\ S[i] = Nat
      BY <2>1, <1>5
    <3>2. h[i - 1] + LineLength(text[i]) + 1 \in Nat
      BY <3>1, <1>6
    <3> QED BY <3>1, <3>2, <1>15
  <2>2. h[0] \in S[0]
    BY <1>5, <1>15
  <2> QED BY <2>1, <2>2, Along
<1> QED BY <1>5, <1>13, <1>14, <1>16

\* Every task begins with a document that has a cue, and with its cues measured.
LEMMA InitMeasured == Init => Measurable
<1> SUFFICES ASSUME Init PROVE Measurable
  OBVIOUS
<1>1. PICK file \in Files : Readable(file) /\ document = ParseSubtitle(file)
  BY DEF Init
<1>2. file.format \in Format /\ file.lines \in Text
  BY ChunkingAssumption DEF Text
<1>3. PICK cs \in Seq(Cue) : cs = document.cues /\ cs # <<>>
  BY <1>1, <1>2, DocumentRead DEF Sound, Document
<1>4. PICK n \in Nat \ {0} : n = Len(cs) /\ DOMAIN cs = 1 .. n
  BY <1>3
<1> DEFINE M(i) ==
        [length |-> TextLength(cs[i].text),
         pause |-> IF i = n THEN 0 ELSE cs[i + 1].start - cs[i].end,
         ends |-> IF Last(cs[i].text).kind = "words" THEN Last(cs[i].text).word.ends ELSE {}]
<1>5. ASSUME NEW i \in 1 .. n PROVE M(i) \in Measure
  <2>1. cs[i] \in Cue
    BY <1>4
  <2>0. PICK t \in Text \ {<<>>} : t = cs[i].text
    <3>1. cs[i].text \in Trimmed
      BY <2>1 DEF Cue
    <3> QED BY <3>1, Solids DEF Trimmed, Piece
  <2>2. TextLength(cs[i].text) \in Nat
    <3>1. TextLength(t) \in Nat
      BY TextLengthNat
    <3> QED BY <3>1, <2>0
  <2>3. (IF i = n THEN 0 ELSE cs[i + 1].start - cs[i].end) \in Int
    <3>1. CASE i # n
      <4>1. i + 1 \in 1 .. n
        BY <3>1
      <4>2. cs[i + 1] \in Cue
        BY <4>1, <1>4
      <4>3. Time \subseteq Int
        BY DEF Time
      <4>4. cs[i + 1].start \in Int /\ cs[i].end \in Int
        BY <4>2, <4>3, <2>1 DEF Cue
      <4> QED BY <4>4
    <3> QED BY <3>1
  <2>4. Last(cs[i].text) \in Lines(Word)
    <3>1. t \in Seq(Lines(Word)) /\ t # <<>>
      BY DEF Text
    <3>2. t[Len(t)] \in Lines(Word)
      BY <3>1
    <3> QED BY <2>0, <3>2 DEF Last
  <2>5. (IF Last(cs[i].text).kind = "words" THEN Last(cs[i].text).word.ends ELSE {})
          \in SUBSET Language
    <3>1. PICK line \in Lines(Word) : line = Last(cs[i].text)
      BY <2>4
    <3>2. ASSUME line.kind = "words" PROVE line.word.ends \in SUBSET Language
      <4>1. line \in Spoken
        BY <3>2, LineKinds DEF Said, Timed
      <4>2. line.word \in Word
        BY <4>1 DEF Spoken
      <4> QED BY <4>2 DEF Word
    <3> QED BY <3>1, <3>2
  <2> QED BY <2>2, <2>3, <2>5 DEF Measure
<1>6. Measured(document) = [i \in 1 .. n |-> M(i)]
  BY <1>3, <1>4 DEF Measured
<1>7. cues = [i \in 1 .. n |-> M(i)]
  BY <1>6 DEF Init
<1>8. cues \in [1 .. n -> Measure]
  BY <1>5, <1>7
<1>9. cues \in Seq(Measure) /\ Len(cues) = n
  BY <1>8
<1> QED BY <1>9 DEF Measurable

-----------------------------------------------------------------------------
(* The task.                                                               *)

\* A block that may be sent under the settings s.
Sendable(x, s) ==
    /\ x.end - x.start <= s.maxSize
    /\ \/ x.end - x.start = 1
       \/ Characters(cues, x.start + 1, x.end) <= s.maxCharacters

\* The blocks hold the cues once, and those to be sent keep to the limits.
IInv ==
    /\ TypeOK
    /\ Tiling(chunks, 0, Len(cues))
    /\ \A i \in completedChunks + 1 .. Len(chunks) : Sendable(chunks[i], settings)

LEMMA SettingsValid ==
    ASSUME NEW s \in Settings PROVE Valid(s)
BY ChunkingAssumption DEF ChunkingAssumption

LEMMA DoneReaches ==
    ASSUME IInv
    PROVE  DoneCount = Reach(chunks, completedChunks) /\ DoneCount \in 0 .. Len(cues)
<1>1. DoneCount = Reach(chunks, completedChunks)
  BY DEF DoneCount, Reach
<1>2. Len(cues) \in Nat /\ completedChunks \in 0 .. Len(chunks)
  BY DEF IInv, TypeOK, Measurable
<1> QED BY <1>1, <1>2, Parted DEF IInv

\* The rest, cut again and moved to where it stands.
LEMMA RestCut ==
    ASSUME IInv, NEW s \in Settings
    PROVE  /\ Tiling(Rest(s), DoneCount, Len(cues))
           /\ \A i \in 1 .. Len(Rest(s)) :
                 LET x == Rest(s)[i]
                 IN  /\ Sendable(x, s)
                     /\ \/ x.end = Len(cues)
                        \/ Quality(cues, s, x.end) > 0
                        \/ /\ \/ x.end + 1 - x.start > s.maxSize
                              \/ Characters(cues, x.start + 1, x.end + 1) > s.maxCharacters
                           /\ \A k \in x.start + Minimum(s) .. x.end : Quality(cues, s, k) = 0
<1>0. PICK n \in Nat : n = Len(cues)
  BY DEF IInv, TypeOK, Measurable
<1>1. PICK d \in 0 .. n : d = DoneCount
  BY <1>0, DoneReaches
<1>2. PICK m \in Nat : d + m = n
  <2>1. n - d \in Nat /\ d + (n - d) = n
    OBVIOUS
  <2> QED BY <2>1
<1>3. cues \in Seq(Measure) /\ Valid(s)
  BY SettingsValid DEF IInv, TypeOK, Measurable
<1>4. PICK c : c = SubSeq(cues, d + 1, n)
  OBVIOUS
<1>5. c \in Seq(Measure) /\ Len(c) = m /\ \A i \in 1 .. m : c[i] = cues[d + i]
  <2>1. PICK x \in 1 .. n + 1 : x = d + 1
    OBVIOUS
  <2>2. n - x + 1 = m /\ \A i \in 1 .. m : x + i - 1 = d + i /\ d + i \in 1 .. n
    BY <2>1, <1>2
  <2> QED BY <2>1, <2>2, <1>0, <1>3, <1>4
<1>6. PICK q : q = ChunkCues(c, s)
  OBVIOUS
<1>7. Tiling(q, 0, m) /\ WellCut(c, s, q)
  BY <1>3, <1>5, <1>6, CutTiles
<1>8. PICK l \in Nat : l = Len(q)
  BY <1>7 DEF Tiling
<1>9. PICK b : b = [i \in 1 .. l |-> [start |-> q[i].start + d, end |-> q[i].end + d]]
  OBVIOUS
<1>10. Rest(s) = b
  BY <1>0, <1>1, <1>4, <1>6, <1>8, <1>9 DEF Rest
<1>11. \A i \in 1 .. l :
          /\ q[i].start \in 0 .. m /\ q[i].end \in 0 .. m /\ q[i].start < q[i].end
          /\ b[i].start = q[i].start + d /\ b[i].end = q[i].end + d
          /\ b[i] \in Block
  <2>1. \A i \in 1 .. l : q[i].start \in 0 .. m /\ q[i].end \in 0 .. m
    BY <1>5, <1>7, <1>8 DEF WellCut
  <2>2. \A i \in 1 .. l : q[i].start < q[i].end
    BY <1>7, <1>8 DEF Tiling
  <2>3. \A i \in 1 .. l : b[i] = [start |-> q[i].start + d, end |-> q[i].end + d]
    BY <1>9
  <2>4. ASSUME NEW i \in 1 .. l
        PROVE  b[i].start = q[i].start + d /\ b[i].end = q[i].end + d /\ b[i] \in Block
    <3>1. PICK x \in Nat, y \in Nat : x = q[i].start + d /\ y = q[i].end + d
      BY <2>1
    <3>2. b[i] = [start |-> x, end |-> y]
      BY <3>1, <2>3
    <3> QED BY <3>1, <3>2 DEF Block
  <2> QED BY <2>1, <2>2, <2>4
<1>12. b \in Seq(Block) /\ Len(b) = l
  BY <1>9, <1>11
<1>13. Tiling(b, d, n)
  <2>1. b = <<>> <=> d = n
    <3>1. (b = <<>> <=> l = 0) /\ (q = <<>> <=> l = 0)
      BY <1>7, <1>8, <1>12 DEF Tiling
    <3>2. q = <<>> <=> 0 = m
      BY <1>7 DEF Tiling
    <3>3. m = 0 <=> d = n
      BY <1>2
    <3> QED BY <3>1, <3>2, <3>3
  <2>2. ASSUME b # <<>> PROVE b[1].start = d /\ b[l].end = n
    <3>1. l # 0 /\ 1 \in 1 .. l /\ l \in 1 .. l /\ q # <<>>
      BY <2>2, <1>7, <1>8, <1>12 DEF Tiling
    <3>2. q[1].start = 0 /\ q[l].end = m
      BY <3>1, <1>7, <1>8 DEF Tiling
    <3>3. 0 + d = d /\ m + d = n
      BY <1>2
    <3> QED BY <3>1, <3>2, <3>3, <1>11
  <2>3. \A i \in 1 .. l : b[i].start < b[i].end
    BY <1>11
  <2>4. ASSUME NEW i \in 1 .. l - 1 PROVE b[i].end = b[i + 1].start
    <3>1. i \in 1 .. l /\ i + 1 \in 1 .. l
      OBVIOUS
    <3>2. q[i].end = q[i + 1].start
      BY <1>7, <1>8 DEF Tiling
    <3> QED BY <3>1, <3>2, <1>11
  <2> QED BY <2>1, <2>2, <2>3, <2>4, <1>12 DEF Tiling
<1>14. ASSUME NEW i \in 1 .. l
       PROVE  /\ Sendable(b[i], s)
              /\ \/ b[i].end = n
                 \/ Quality(cues, s, b[i].end) > 0
                 \/ /\ \/ b[i].end + 1 - b[i].start > s.maxSize
                       \/ Characters(cues, b[i].start + 1, b[i].end + 1) > s.maxCharacters
                    /\ \A k \in b[i].start + Minimum(s) .. b[i].end : Quality(cues, s, k) = 0
  <2>1. PICK x \in 0 .. m, y \in 0 .. m : x = q[i].start /\ y = q[i].end
    BY <1>11
  <2>2. x < y /\ b[i].start = x + d /\ b[i].end = y + d
    BY <2>1, <1>11
  <2>3. Fits(c, s, x, y) /\ Broken(c, s, x, y)
    BY <2>1, <1>7, <1>8 DEF WellCut
  <2>4. PICK X \in 0 .. n, Y \in 1 .. n : X = x + d /\ Y = y + d /\ Y - X = y - x
    <3>1. x + d \in 0 .. n /\ y + d \in 1 .. n /\ (y + d) - (x + d) = y - x
      BY <2>2, <1>2
    <3> QED BY <3>1
  <2>5. \A e \in x .. m : Characters(c, x + 1, e) = Characters(cues, x + d + 1, e + d)
    <3>1. ASSUME NEW e \in x .. m
          PROVE  Characters(c, x + 1, e) = Characters(cues, x + d + 1, e + d)
      <4>1. Len(cues) - d = m
        BY <1>0, <1>2
      <4>2. x \in 0 .. Len(cues) - d /\ e \in x .. Len(cues) - d /\ d \in 0 .. Len(cues)
            /\ c = SubSeq(cues, d + 1, Len(cues))
        BY <4>1, <1>0, <1>4
      <4> QED BY <4>2, <1>3, CharactersMoved
    <3> QED BY <3>1
  <2>6. Sendable(b[i], s)
    <3>1. y - x <= s.maxSize /\ (y = x + 1 \/ Characters(c, x + 1, y) <= s.maxCharacters)
      BY <2>3 DEF Fits
    <3>2. y \in x .. m
      BY <2>2
    <3>3. Characters(c, x + 1, y) = Characters(cues, X + 1, Y)
      BY <3>2, <2>4, <2>5
    <3>4. y = x + 1 <=> Y - X = 1
      BY <2>4
    <3> QED BY <3>1, <3>3, <3>4, <2>2, <2>4 DEF Sendable
  <2>7. ASSUME NEW k \in 1 .. m PROVE Quality(c, s, k) = Quality(cues, s, k + d)
    <3>1. k + d = d + k /\ (k = m <=> k + d = n)
      BY <1>2
    <3>2. c[k] = cues[k + d]
      BY <3>1, <1>5
    <3> QED BY <3>1, <3>2, <1>0, <1>5 DEF Quality
  <2>8. CASE y = m
    BY <2>8, <2>6, <2>2, <1>2
  <2>9. CASE Quality(c, s, y) > 0
    <3>1. y \in 1 .. m
      BY <2>2
    <3> QED BY <3>1, <2>2, <2>6, <2>7, <2>9
  <2>10. CASE /\ y # m /\ ~Fits(c, s, x, y + 1)
              /\ \A k \in x + Minimum(s) .. y : Quality(c, s, k) = 0
    <3>1. y + 1 \in x .. m /\ y + 1 <= Len(c)
      BY <2>2, <2>10, <1>5
    <3>2. (y + 1) - x > s.maxSize \/ Characters(c, x + 1, y + 1) > s.maxCharacters
      <4>1. s.maxSize \in Nat /\ s.maxCharacters \in Nat
        BY <1>3 DEF Valid
      <4>2. Characters(c, x + 1, y + 1) \in Nat
        <5>1. x \in 0 .. Len(c) /\ y + 1 \in x .. Len(c)
          BY <3>1, <1>5
        <5> QED BY <5>1, <1>5, CharactersType
      <4>3. ~((y + 1) - x <= s.maxSize) \/ ~(Characters(c, x + 1, y + 1) <= s.maxCharacters)
        BY <2>10, <3>1 DEF Fits
      <4> QED BY <4>1, <4>2, <4>3
    <3>3. Characters(c, x + 1, y + 1) = Characters(cues, X + 1, Y + 1)
      <4>1. x + d + 1 = X + 1 /\ (y + 1) + d = Y + 1
        BY <2>4
      <4> QED BY <4>1, <3>1, <2>5
    <3>4. Y + 1 - X = (y + 1) - x
      BY <2>4
    <3>5. ASSUME NEW k \in X + Minimum(s) .. Y PROVE Quality(cues, s, k) = 0
      <4>1. PICK t \in Nat \ {0} : t = Minimum(s)
        BY <1>3, MinimumType
      <4>2. PICK j \in 1 .. m : j + d = k /\ j \in x + t .. y
        <5>1. k \in X + t .. Y
          BY <4>1
        <5>2. k - d \in 1 .. m /\ (k - d) + d = k /\ k - d \in x + t .. y
          BY <5>1, <2>4, <1>2
        <5> QED BY <5>2
      <4>3. Quality(c, s, j) = 0
        BY <4>1, <4>2, <2>10
      <4> QED BY <4>2, <4>3, <2>7
    <3> QED BY <3>2, <3>3, <3>4, <3>5, <2>2, <2>4, <2>6
  <2> QED BY <2>3, <2>8, <2>9, <2>10, <1>5 DEF Broken
<1> QED BY <1>0, <1>1, <1>10, <1>12, <1>13, <1>14

\* Two lists, of which the second holds what is to be sent.
LEMMA RestJoined ==
    ASSUME NEW n \in Nat, NEW y \in 0 .. n, NEW p, Tiling(p, 0, y), NEW q, Tiling(q, y, n),
           NEW s, \A i \in 1 .. Len(q) : Sendable(q[i], s), NEW b, b = p \o q
    PROVE  /\ Tiling(b, 0, n) /\ Len(p) \in 0 .. Len(b)
           /\ \A i \in Len(p) + 1 .. Len(b) : Sendable(b[i], s)
<1>1. 0 <= y /\ y <= n /\ y \in Nat /\ 0 \in Nat
  OBVIOUS
<1>2. Tiling(b, 0, n)
  BY <1>1, Joined
<1>3. PICK l \in Nat, m \in Nat : l = Len(p) /\ m = Len(q)
  BY DEF Tiling
<1>4. p \in Seq(Block) /\ q \in Seq(Block)
  BY DEF Tiling
<1>5. Len(b) = l + m /\ \A i \in 1 .. m : b[l + i] = q[i]
  BY <1>3, <1>4
<1>6. ASSUME NEW i \in l + 1 .. l + m PROVE Sendable(b[i], s)
  <2>1. PICK k \in 1 .. m : i = l + k
    <3>1. i - l \in 1 .. m /\ i = l + (i - l)
      OBVIOUS
    <3> QED BY <3>1
  <2>2. b[i] = q[k]
    BY <2>1, <1>5
  <2>3. Sendable(q[k], s)
    BY <1>3
  <2> QED BY <2>2, <2>3
<1> QED BY <1>2, <1>3, <1>5, <1>6

\* The blocks after the first k of them, one by one.
LEMMA After ==
    ASSUME NEW b \in Seq(Block), NEW k \in 0 .. Len(b), NEW q, q = SubSeq(b, k + 1, Len(b))
    PROVE  \A i \in 1 .. Len(q) : \E j \in k + 1 .. Len(b) : q[i] = b[j]
<1>1. PICK l \in Nat, x \in 1 .. Len(b) + 1 : l = Len(b) /\ x = k + 1
  OBVIOUS
<1>2. PICK m \in Nat : m = l - x + 1
  <2>1. l - x + 1 \in Nat
    BY <1>1
  <2> QED BY <2>1
<1>3. q = SubSeq(b, x, l) /\ x \in 1 .. l + 1
  BY <1>1
<1>4. \A i \in 1 .. m : x + i - 1 \in x .. l
  BY <1>1, <1>2
<1>5. Len(q) = m /\ \A i \in 1 .. m : q[i] = b[x + i - 1]
  BY <1>1, <1>2, <1>3, <1>4
<1> QED BY <1>1, <1>4, <1>5

LEMMA InitHolds ==
    ASSUME Init PROVE IInv
<1>1. settings \in Settings /\ completedChunks = 0 /\ chunks = ChunkCues(cues, settings)
  BY DEF Init
<1>2. cues \in Seq(Measure) /\ cues # <<>> /\ Valid(settings)
  BY <1>1, InitMeasured, SettingsValid DEF Measurable
<1>3. Tiling(chunks, 0, Len(cues)) /\ WellCut(cues, settings, chunks)
  BY <1>1, <1>2, CutTiles
<1>4. chunks \in Seq(Block) /\ completedChunks \in 0 .. Len(chunks)
  BY <1>1, <1>3 DEF Tiling
<1>5. ASSUME NEW i \in 1 .. Len(chunks) PROVE Sendable(chunks[i], settings)
  <2>1. PICK x \in Nat, y \in Nat : x = chunks[i].start /\ y = chunks[i].end
    BY <1>2, <1>3 DEF WellCut
  <2>2. Fits(cues, settings, x, y)
    BY <2>1, <1>3 DEF WellCut
  <2>3. y = x + 1 <=> y - x = 1
    OBVIOUS
  <2> QED BY <2>1, <2>2, <2>3 DEF Fits, Sendable
<1>6. \A i \in completedChunks + 1 .. Len(chunks) : Sendable(chunks[i], settings)
  BY <1>1, <1>5
<1> QED BY <1>1, <1>3, <1>4, <1>6, InitMeasured DEF IInv, TypeOK, Measurable, Init

LEMMA CommitKeeps ==
    ASSUME IInv, Commit PROVE IInv'
<1>1. completedChunks' \in 0 .. Len(chunks) /\ completedChunks' = completedChunks + 1
  BY DEF IInv, TypeOK, Commit
<1>2. UNCHANGED <<document, cues, settings, chunks>>
  BY DEF Commit
<1>3. \A i \in completedChunks' + 1 .. Len(chunks) : i \in completedChunks + 1 .. Len(chunks)
  BY <1>1 DEF IInv, TypeOK
<1> QED BY <1>1, <1>2, <1>3 DEF IInv, TypeOK, Measurable, Sendable

\* Both halves of a block may be sent as the whole might.
LEMMA Halves ==
    ASSUME NEW n \in Nat, n = Len(cues), cues \in Seq(Measure),
           NEW a \in 0 .. n, NEW e \in 0 .. n, e - a > 1,
           NEW s, Valid(s), NEW c, c = [start |-> a, end |-> e], Sendable(c, s),
           NEW middle, middle = a + (e - a + 1) \div 2,
           NEW q, q = <<[start |-> a, end |-> middle], [start |-> middle, end |-> e]>>
    PROVE  Tiling(q, a, e) /\ \A i \in 1 .. Len(q) : Sendable(q[i], s)
<1>1. middle \in a + 1 .. e - 1
  OBVIOUS
<1>2. PICK m \in 1 .. n : m = middle
  BY <1>1
<1>3. a < m /\ m < e
  BY <1>1, <1>2
<1>4. PICK x \in Block, y \in Block : x = [start |-> a, end |-> m] /\ y = [start |-> m, end |-> e]
  <2>1. a \in Nat /\ m \in Nat /\ e \in Nat
    OBVIOUS
  <2>2. [start |-> a, end |-> m] \in Block /\ [start |-> m, end |-> e] \in Block
    BY <2>1 DEF Block
  <2> QED BY <2>2
<1>5. q = <<x, y>>
  BY <1>2, <1>4
<1>6. Len(q) = 2 /\ q[1] = x /\ q[2] = y /\ q \in Seq(Block) /\ q # <<>>
  BY <1>5
<1>7. x.start = a /\ x.end = m /\ y.start = m /\ y.end = e /\ c.start = a /\ c.end = e
  BY <1>4
<1>8. Tiling(q, a, e)
  <2>1. a # e
    BY <1>3
  <2>2. \A i \in 1 .. Len(q) : i = 1 \/ i = 2
    BY <1>6
  <2>3. \A i \in 1 .. Len(q) - 1 : i = 1 /\ i + 1 = 2
    BY <1>6
  <2>4. \A i \in 1 .. Len(q) : q[i].start < q[i].end
    BY <2>2, <1>3, <1>6, <1>7
  <2>5. \A i \in 1 .. Len(q) - 1 : q[i].end = q[i + 1].start
    BY <2>3, <1>6, <1>7
  <2> QED BY <2>1, <2>4, <2>5, <1>6, <1>7 DEF Tiling
<1>9. /\ s.maxSize \in Nat /\ s.maxCharacters \in Nat
      /\ e - a <= s.maxSize /\ Characters(cues, a + 1, e) <= s.maxCharacters
  BY <1>3, <1>7 DEF Sendable, Valid
<1>10. Characters(cues, a + 1, e) \in Nat
  <2>1. a \in 0 .. Len(cues) /\ e \in a .. Len(cues)
    BY <1>3
  <2> QED BY <2>1, CharactersType
<1>11. Sendable(x, s)
  <2>1. a \in 0 .. Len(cues) /\ a \in a .. Len(cues) /\ m \in a .. Len(cues) /\ e \in m .. Len(cues)
    BY <1>3
  <2>2. Characters(cues, a + 1, m) <= Characters(cues, a + 1, e)
    BY <2>1, CharactersWithin
  <2>3. Characters(cues, a + 1, m) \in Nat
    BY <2>1, CharactersType
  <2>4. m - a <= s.maxSize
    BY <1>3, <1>9
  <2> QED BY <2>2, <2>3, <2>4, <1>7, <1>9, <1>10 DEF Sendable
<1>12. Sendable(y, s)
  <2>1. /\ a \in 0 .. Len(cues) /\ m \in a .. Len(cues) /\ e \in m .. Len(cues)
        /\ e \in e .. Len(cues) /\ m \in 0 .. Len(cues)
    BY <1>3
  <2>2. Characters(cues, m + 1, e) <= Characters(cues, a + 1, e)
    BY <2>1, CharactersWithin
  <2>3. Characters(cues, m + 1, e) \in Nat
    BY <2>1, CharactersType
  <2>4. e - m <= s.maxSize
    BY <1>3, <1>9
  <2> QED BY <2>2, <2>3, <2>4, <1>7, <1>9, <1>10 DEF Sendable
<1>13. \A i \in 1 .. Len(q) : q[i] = x \/ q[i] = y
  <2>1. \A i \in 1 .. Len(q) : i = 1 \/ i = 2
    BY <1>6
  <2> QED BY <2>1, <1>6
<1> QED BY <1>8, <1>11, <1>12, <1>13

LEMMA SplitKeeps ==
    ASSUME IInv, Split PROVE IInv'
<1>0. PICK n \in Nat, l \in Nat, k \in Nat :
         n = Len(cues) /\ l = Len(chunks) /\ k = completedChunks
  BY DEF IInv, TypeOK, Measurable
<1>1. /\ cues \in Seq(Measure) /\ chunks \in Seq(Block) /\ settings \in Settings
      /\ Valid(settings) /\ k < l /\ k \in 0 .. l /\ k + 1 \in 0 .. l /\ k + 1 \in 1 .. l
  BY <1>0, SettingsValid DEF IInv, TypeOK, Measurable, Split
<1> DEFINE c == chunks[k + 1]
           middle == c.start + (c.end - c.start + 1) \div 2
<1>2. /\ c.end - c.start > 1
      /\ chunks' = SubSeq(chunks, 1, k) \o <<[start |-> c.start, end |-> middle],
                                             [start |-> middle, end |-> c.end]>>
                     \o SubSeq(chunks, k + 2, l)
      /\ UNCHANGED <<document, cues, settings, completedChunks>>
  BY <1>0 DEF Split
<1>3. Tiling(chunks, 0, n)
  BY <1>0 DEF IInv
<1>4. PICK a \in 0 .. n : a = Reach(chunks, k)
  BY <1>0, <1>1, <1>3, Parted
<1>5. PICK e \in 0 .. n : e = Reach(chunks, k + 1)
  BY <1>0, <1>1, <1>3, Parted
<1>6. c = [start |-> a, end |-> e]
  <2>1. c \in Block
    BY <1>0, <1>1
  <2>2. c.start = a
    BY <1>0, <1>1, <1>3, <1>4, Parted
  <2>3. k + 1 # 0
    BY <1>1
  <2>4. c.end = e
    BY <1>5, <2>3 DEF Reach
  <2> QED BY <2>1, <2>2, <2>4 DEF Block
<1>7. PICK p : p = SubSeq(chunks, 1, k)
  OBVIOUS
<1>8. Tiling(p, 0, a) /\ Len(p) = k
  <2>1. Tiling(p, 0, a)
    BY <1>0, <1>1, <1>3, <1>4, <1>7, Parted
  <2>2. Len(p) = k
    BY <1>0, <1>1, <1>7
  <2> QED BY <2>1, <2>2
<1>9. PICK r : r = SubSeq(chunks, k + 2, l)
  OBVIOUS
<1>10. (k + 1) + 1 = k + 2
  OBVIOUS
<1>11. r = SubSeq(chunks, (k + 1) + 1, l)
  BY <1>9, <1>10
<1>12. Tiling(r, e, n)
  BY <1>0, <1>1, <1>3, <1>5, <1>11, Parted
<1>13. ASSUME NEW i \in 1 .. Len(r) PROVE Sendable(r[i], settings)
  <2>1. PICK j \in (k + 1) + 1 .. l : r[i] = chunks[j]
    BY <1>0, <1>1, <1>11, After
  <2>2. j \in k + 1 .. l
    OBVIOUS
  <2> QED BY <2>1, <2>2, <1>0 DEF IInv
<1>14. Sendable(c, settings)
  <2>1. k + 1 \in k + 1 .. l
    BY <1>1
  <2> QED BY <2>1, <1>0 DEF IInv
<1>15. e - a > 1
  BY <1>2, <1>6
<1>16. PICK h : h = <<[start |-> c.start, end |-> middle], [start |-> middle, end |-> c.end]>>
  OBVIOUS
<1>17. PICK x : x = middle
  OBVIOUS
<1>18. x = a + (e - a + 1) \div 2 /\ h = <<[start |-> a, end |-> x], [start |-> x, end |-> e]>>
  BY <1>6, <1>16, <1>17
<1>19. Tiling(h, a, e) /\ \A i \in 1 .. Len(h) : Sendable(h[i], settings)
  <2>1. PICK w : w = c
    OBVIOUS
  <2>2. w = [start |-> a, end |-> e] /\ Sendable(w, settings)
    BY <2>1, <1>6, <1>14
  <2> QED BY <2>2, <1>0, <1>1, <1>15, <1>18, Halves
<1>20. PICK q : q = h \o r
  OBVIOUS
<1>21. Tiling(q, a, n)
  <2>1. a <= e /\ e <= n
    BY <1>15
  <2> QED BY <2>1, <1>12, <1>19, <1>20, Joined
<1>22. ASSUME NEW i \in 1 .. Len(q) PROVE Sendable(q[i], settings)
  <2>1. h \in Seq(Block) /\ r \in Seq(Block)
    BY <1>12, <1>19 DEF Tiling
  <2>2. PICK u \in Nat, v \in Nat : u = Len(h) /\ v = Len(r)
    BY <2>1
  <2>3. /\ Len(q) = u + v /\ \A j \in 1 .. u : q[j] = h[j]
        /\ \A j \in 1 .. v : q[u + j] = r[j]
    BY <2>1, <2>2, <1>20
  <2>4. CASE i \in 1 .. u
    BY <2>2, <2>3, <2>4, <1>19
  <2>5. CASE i \notin 1 .. u
    <3>1. PICK j \in 1 .. v : i = u + j
      <4>1. i - u \in 1 .. v /\ i = u + (i - u)
        BY <2>3, <2>5
      <4> QED BY <4>1
    <3> QED BY <3>1, <2>2, <2>3, <1>13
  <2> QED BY <2>4, <2>5
<1>23. chunks' = p \o q
  <2>1. p \in Seq(Block) /\ h \in Seq(Block) /\ r \in Seq(Block)
    BY <1>8, <1>12, <1>19 DEF Tiling
  <2>2. chunks' = (p \o h) \o r
    BY <1>2, <1>7, <1>9, <1>16
  <2>3. (p \o h) \o r = p \o (h \o r)
    BY <2>1, ConcatAssociative
  <2> QED BY <2>2, <2>3, <1>20
<1>24. PICK b : b = chunks'
  OBVIOUS
<1>25. /\ Tiling(b, 0, n) /\ k \in 0 .. Len(b)
       /\ \A i \in k + 1 .. Len(b) : Sendable(b[i], settings)
  BY <1>8, <1>21, <1>22, <1>23, <1>24, RestJoined
<1>26. b \in Seq(Block)
  BY <1>25 DEF Tiling
<1>27. /\ cues' = cues /\ settings' = settings /\ completedChunks' = k /\ chunks' = b
  BY <1>0, <1>2, <1>24
<1>28. Measurable /\ Len(cues) = n
  BY <1>0 DEF IInv, TypeOK
<1> QED BY <1>1, <1>25, <1>26, <1>27, <1>28 DEF IInv, TypeOK, Measurable, Sendable

LEMMA UpdateKeeps ==
    ASSUME IInv, NEW s \in Settings, UpdateSettings(s) PROVE IInv'
<1>0. PICK n \in Nat, l \in Nat, k \in Nat :
         n = Len(cues) /\ l = Len(chunks) /\ k = completedChunks
  BY DEF IInv, TypeOK, Measurable
<1>1. /\ settings' = s /\ UNCHANGED <<document, cues, completedChunks>>
      /\ chunks' = IF Rechunks(s) THEN SubSeq(chunks, 1, k) \o Rest(s) ELSE chunks
  BY <1>0 DEF UpdateSettings
<1>2. chunks \in Seq(Block) /\ k \in 0 .. l /\ Measurable /\ Tiling(chunks, 0, n)
  BY <1>0 DEF IInv, TypeOK
<1>3. CASE ~Rechunks(s)
  <2>1. s.maxSize = settings.maxSize /\ s.maxCharacters = settings.maxCharacters
    BY <1>3 DEF Rechunks
  <2>2. chunks' = chunks /\ cues' = cues /\ completedChunks' = completedChunks
    BY <1>1, <1>3
  <2>3. \A i \in completedChunks + 1 .. Len(chunks) : Sendable(chunks[i], settings)
    BY DEF IInv
  <2>4. \A i \in completedChunks + 1 .. Len(chunks) : Sendable(chunks[i], s)
    BY <2>1, <2>3 DEF Sendable
  <2> QED BY <2>2, <2>4, <1>0, <1>1, <1>2 DEF IInv, TypeOK, Measurable, Sendable
<1>4. CASE Rechunks(s)
  <2>1. PICK a \in 0 .. n : a = DoneCount /\ a = Reach(chunks, k)
    BY <1>0, DoneReaches
  <2>2. PICK q : q = Rest(s)
    OBVIOUS
  <2>3. Tiling(q, a, n) /\ \A i \in 1 .. Len(q) : Sendable(q[i], s)
    BY <2>1, <2>2, <1>0, RestCut
  <2>4. PICK p : p = SubSeq(chunks, 1, k)
    OBVIOUS
  <2>5. Tiling(p, 0, a) /\ Len(p) = k
    <3>1. Tiling(p, 0, a)
      BY <2>1, <2>4, <1>0, <1>2, Parted
    <3>2. Len(p) = k
      BY <2>4, <1>0, <1>2
    <3> QED BY <3>1, <3>2
  <2>6. PICK b : b = p \o q
    OBVIOUS
  <2>7. /\ Tiling(b, 0, n) /\ k \in 0 .. Len(b)
        /\ \A i \in k + 1 .. Len(b) : Sendable(b[i], s)
    BY <2>3, <2>5, <2>6, RestJoined
  <2>8. chunks' = b /\ cues' = cues /\ completedChunks' = k
    BY <2>2, <2>4, <2>6, <1>0, <1>1, <1>4
  <2>9. b \in Seq(Block)
    BY <2>7 DEF Tiling
  <2> QED BY <2>7, <2>8, <2>9, <1>0, <1>1, <1>2 DEF IInv, TypeOK, Measurable, Sendable
<1> QED BY <1>3, <1>4

\* Whatever is finished, split and changed.
LEMMA Invariance == Spec => []IInv
<1>1. Init => IInv
  BY InitHolds
<1>2. IInv /\ [Next]_vars => IInv'
  <2> SUFFICES ASSUME IInv, [Next]_vars PROVE IInv'
    OBVIOUS
  <2>1. CASE Commit
    BY <2>1, CommitKeeps
  <2>2. CASE Split
    BY <2>2, SplitKeeps
  <2>3. ASSUME NEW s \in Settings, UpdateSettings(s) PROVE IInv'
    BY <2>3, UpdateKeeps
  <2>4. CASE UNCHANGED vars
    BY <2>4 DEF IInv, TypeOK, Measurable, Sendable, vars
  <2> QED BY <2>1, <2>2, <2>3, <2>4 DEF Next
<1> QED BY <1>1, <1>2, PTL DEF Spec

\* Every variable keeps its type: the document has a cue, its cues have been measured, and no
\* more blocks are finished than there are (createJob, Runner.run, updateJobSettings).
THEOREM TypesKept == Spec => []TypeOK
<1>1. IInv => TypeOK
  BY DEF IInv
<1> QED BY <1>1, Invariance, PTL

\* Whatever was finished, split and changed before, the blocks of a task hold every cue once
\* and in order, and those still to be sent keep to the limits of the settings as they are
\* now (chunkCues, the split of runner.ts, updateJobSettings).
THEOREM BlocksAlwaysFit == Spec => []BlocksFit
<1>1. ASSUME IInv PROVE BlocksFit
  <2>1. cues # <<>> /\ cues \in Seq(Measure) /\ Tiling(chunks, 0, Len(cues))
    BY <1>1 DEF IInv, TypeOK, Measurable
  <2>2. chunks # <<>>
    <3>1. Len(cues) # 0
      BY <2>1
    <3> QED BY <2>1, <3>1 DEF Tiling
  <2> QED BY <1>1, <2>1, <2>2 DEF BlocksFit, IInv, Sendable, Tiling
<1> QED BY <1>1, Invariance, PTL

\* At any time, the rest of the task would be cut in mid-sentence only where a limit forces
\* it and no better place was in reach (chunkCues).
THEOREM SentencesCutLast == Spec => []CutsAtBreaks
<1>1. ASSUME IInv PROVE CutsAtBreaks
  <2>1. settings \in Settings
    BY <1>1 DEF IInv, TypeOK
  <2> QED BY <1>1, <2>1, RestCut DEF CutsAtBreaks
<1> QED BY <1>1, Invariance, PTL

\* The document is the one that was read.
LEMMA InitRead == Init => DocumentInv
<1> SUFFICES ASSUME Init PROVE DocumentInv
  OBVIOUS
<1>1. PICK file \in Files : Readable(file) /\ document = ParseSubtitle(file)
  BY DEF Init
<1>2. file.format \in Format /\ file.lines \in Text
  BY ChunkingAssumption DEF Text
<1>3. /\ Sound(document) /\ Ended(document) /\ document.cues # <<>>
      /\ Len(document.cues) <= CueLimit
  BY <1>1, <1>2, DocumentRead
<1>4. Len(cues) = Len(document.cues)
  <2>1. document.cues \in Seq(Cue)
    BY <1>3 DEF Sound, Document
  <2>2. PICK n \in Nat : n = Len(document.cues) /\ DOMAIN document.cues = 1 .. n
    BY <2>1
  <2>3. DOMAIN cues = 1 .. n
    BY <2>2 DEF Init, Measured
  <2>4. cues \in Seq(Measure)
    BY InitMeasured DEF Measurable
  <2> QED BY <2>2, <2>3, <2>4
<1> QED BY <1>3, <1>4 DEF DocumentInv

\* Whatever the task's document was read of, and whatever lines the translations have: an
\* export within the limits of files and texts, of texts that neither begin nor end with
\* U+FEFF, is read as the document again, cue by cue, with the texts it shows, and an export
\* of the translation merged with the original is the bilingual export (parseSubtitle,
\* renderSubtitle, mergeSubtitles).
THEOREM ExportsReadBack == Spec => []ExportReadsBack
<1>1. Init => DocumentInv
  BY InitRead
<1>2. DocumentInv /\ [Next]_vars => DocumentInv'
  <2> SUFFICES ASSUME DocumentInv, [Next]_vars PROVE DocumentInv'
    OBVIOUS
  <2>1. UNCHANGED <<document, cues>>
    BY DEF Next, Commit, Split, UpdateSettings, vars
  <2> QED BY <2>1 DEF DocumentInv
<1>3. DocumentInv => ExportReadsBack
  BY ExportsFine
<1> QED BY <1>1, <1>2, <1>3, PTL DEF Spec

=============================================================================
