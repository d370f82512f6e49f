----------------------------- MODULE WorkspaceProofs -----------------------------
(***************************************************************************)
(* Theorems about Workspace, for any tabs, any number of blocks, any       *)
(* translations and settings and any number of refused writes.             *)
(*                                                                         *)
(* Types, the queue and what a tab does fit together whatever happens      *)
(* (Fitting).  As long as the task is the one of the beginning, what the   *)
(* copies and the requests under way say of it agrees with what is stored  *)
(* (Agreeing); a task that comes back after it was deleted or cleared has  *)
(* no such protection.                                                     *)
(***************************************************************************)
EXTENDS Workspace, SequenceTheorems, TLAPS

-----------------------------------------------------------------------------
(* What always holds.                                                      *)

\* With its job lock, a tab waits for a save, or for a change of another kind.
Saving == {"retry", "saving", "keeping", "last", "fixRetry"}
Asking == {"fix", "delete"}

\* A request of the queue is one that its tab waits for.
Fits(r) ==
    /\ r.copy # None => Valid(r.copy)
    /\ r.by = "main" => main[r.tab] \in IF r.copy # None THEN Saving ELSE Asking
    /\ r.by = "editor" =>
          draft[r.tab] # None /\ draft[r.tab].stage = IF r.copy # None THEN "retry" ELSE "commit"
\* No tab has two requests of a kind.
Apart(r, s) == r.tab # s.tab \/ r.by # s.by

\* The requests that wait in q, and the pairs of them that wait one behind the other.
Waiting(q) == {q[i] : i \in 1 .. Len(q)}
Before(q) ==
    {p \in Waiting(q) \X Waiting(q) : \E i, k \in 1 .. Len(q) : i < k /\ p = <<q[i], q[k]>>}

QueueFits ==
    /\ \A r \in Waiting(queue) : Fits(r)
    /\ \A r, s \in Waiting(queue) : <<r, s>> \in Before(queue) => Apart(r, s)

\* A run has its task at hand and, when it sends, the task is not done.  The task is
\* stored as well unless all was cleared after clearWorkspace had asked who is at work.
Running == {"run", "saving", "sent", "keeping"}
RunFits ==
    \A t \in Tab :
        /\ hand[t] # None => main[t] \in Working
        /\ main[t] \in Running => Held(t) # None /\ (clears = 0 => disk.task # None)
        /\ main[t] \in {"saving", "sent"} => Held(t).done < Blocks

Fitting == TypeOK /\ QueueFits /\ RunFits /\ NeverAhead

-----------------------------------------------------------------------------
(* What holds of the task there was in the beginning.                      *)

Original == disk.task # None /\ imports = 0

\* A copy m may become the stored task k: it has the same settings, the same
\* texts and at most one block more.
Agree(m, k) ==
    /\ m.conf = k.conf /\ m.done <= k.done + 1
    /\ \A c \in 1 .. k.done : m.text[c] = k.text[c]
\* Two copies have the same settings and the same length.
Alike(m, n) == m.conf = n.conf /\ m.done = n.done
\* Two copies differ at most in their revisions.
Same(m, n) == m.conf = n.conf /\ m.done = n.done /\ m.text = n.text
\* Weaker, and enough to save a copy under the job lock.
Near(m, k) == m.conf = k.conf /\ m.done <= k.done + 1
\* Enough to save a copy without it.
Within(m, k) == m.conf = k.conf /\ m.done <= k.done

\* Nothing was cleared, every tab has a copy, and nobody is ahead of the storage.
Young ==
    /\ clears = 0 /\ cleared = {} /\ missed = {}
    /\ \A t \in Tab : mem[t] # None /\ seen[t] <= disk.revision
\* A worker's task is the one in workspace.jobs.
Listed == \A t \in Tab : hand[t] = None

\* No copy and no request is of a later revision than the stored task.
Behind ==
    /\ \A t \in Tab : mem[t].revision <= disk.task.revision
    /\ \A t \in Tab : dirty[t] # Clean => dirty[t] <= disk.task.revision
    /\ \A r \in Waiting(queue) : r.base <= disk.task.revision

\* A copy of the stored revision, or an unsaved one based on it, agrees with it.
CopiesAgree ==
    \A t \in Tab : (mem[t].revision = disk.task.revision \/ dirty[t] = disk.task.revision)
                       => Agree(mem[t], disk.task)

\* A run has the stored settings and at most one block more; exactly one between the
\* answer and its save.
Runs(t) ==
    /\ \/ main[t] \in {"run", "saving", "sent", "keeping", "last"}
       \/ main[t] \in {"retry", "fixRetry", "closing"} /\ dirty[t] = Clean
       => Near(mem[t], disk.task)
    /\ main[t] = "sent" => mem[t].done = disk.task.done
    /\ main[t] = "keeping" => mem[t].done = disk.task.done + 1

\* While a block is out, there is no unsaved copy that could still be stored.
RunAgrees ==
    /\ \A t \in Tab : Runs(t)
    /\ \A t, u \in Tab : main[t] \in {"sent", "keeping"} => dirty[u] # disk.task.revision

\* A checkpoint that its base lets through is still the tab's copy.
Based(r) ==
    /\ r.base = disk.task.revision => Agree(r.copy, disk.task) /\ Same(mem[r.tab], r.copy)
    /\ r.by = "main" /\ dirty[r.tab] = disk.task.revision => r.base = disk.task.revision
    /\ r.by = "main" /\ main[r.tab] \in {"retry", "fixRetry"} /\ r.base = disk.task.revision
          => dirty[r.tab] # Clean
    /\ r.by = "editor" /\ r.base = disk.task.revision => dirty[r.tab] = disk.task.revision
\* A checkpoint whose base is not looked at is near enough.
Unbased(r) ==
    /\ r.by = "main" /\ (main[r.tab] \in Working \/ dirty[r.tab] # Clean)
          => Alike(mem[r.tab], r.copy)
    /\ r.by = "main" /\ dirty[r.tab] = Clean => Near(r.copy, disk.task)
    /\ r.by = "editor" /\ dirty[r.tab] = Clean =>
          Within(r.copy, disk.task) /\ main[r.tab] \notin {"retry", "fixRetry"}

\* r is ahead of s: a tab's two checkpoints are of one copy, and a checkpoint whose
\* base is not looked at has no change of the settings before it.
InOrder(r, s) ==
    s.by = "editor" /\ s.copy # None /\ r.by = "main" =>
        /\ r.tab = s.tab /\ r.copy # None => Alike(r.copy, s.copy)
        /\ dirty[s.tab] = Clean => main[r.tab] # "fix"

QueueAgrees ==
    /\ \A r \in Waiting(queue) : r.copy # None => Based(r) /\ Unbased(r)
    /\ \A r, s \in Waiting(queue) : <<r, s>> \in Before(queue) => InOrder(r, s)

Agrees == Young /\ Behind /\ CopiesAgree /\ RunAgrees /\ QueueAgrees
Agreeing == Original => Agrees /\ Listed
\* Everything above, while the task is the original one.
Standing == Fitting /\ Original /\ Agrees /\ Listed

IInv == Fitting /\ Agreeing

-----------------------------------------------------------------------------
(* The queue.                                                              *)

LEMMA WaitingRequests ==
    ASSUME NEW q \in Seq(Request)
    PROVE  /\ Waiting(q) \subseteq Request
           /\ \A r, s : <<r, s>> \in Before(q) => r \in Waiting(q) /\ s \in Waiting(q)
BY DEF Waiting, Before

LEMMA BeforeAt ==
    ASSUME NEW q, NEW r, NEW s
    PROVE  <<r, s>> \in Before(q) <=> \E i, k \in 1 .. Len(q) : i < k /\ r = q[i] /\ s = q[k]
<1>1. ASSUME NEW i \in 1 .. Len(q), NEW k \in 1 .. Len(q), i < k, r = q[i], s = q[k]
      PROVE  <<r, s>> \in Before(q)
  <2>1. r \in Waiting(q) /\ s \in Waiting(q)
    BY <1>1 DEF Waiting
  <2>2. <<r, s>> \in Waiting(q) \X Waiting(q)
    BY <2>1
  <2>3. <<r, s>> = <<q[i], q[k]>>
    BY <1>1
  <2> QED BY <2>2, <2>3, <1>1 DEF Before
<1>2. ASSUME <<r, s>> \in Before(q)
      PROVE  \E i, k \in 1 .. Len(q) : i < k /\ r = q[i] /\ s = q[k]
  BY <1>2 DEF Before
<1> QED BY <1>1, <1>2

\* A request joins the queue.
LEMMA Joins ==
    ASSUME NEW q \in Seq(Request), NEW e \in Request
    PROVE  /\ Append(q, e) \in Seq(Request)
           /\ \A r \in Waiting(Append(q, e)) : r \in Waiting(q) \/ r = e
           /\ \A r, s \in Waiting(Append(q, e)) : <<r, s>> \in Before(Append(q, e)) =>
                 \/ <<r, s>> \in Before(q)
                 \/ r \in Waiting(q) /\ s = e
<1>0. PICK p : p = Append(q, e)
  OBVIOUS
<1>1. /\ p \in Seq(Request) /\ Len(p) = Len(q) + 1
      /\ \A i \in 1 .. Len(q) : p[i] = q[i]
      /\ p[Len(q) + 1] = e
  BY <1>0, AppendProperties
<1>2. PICK n \in Nat : n = Len(q)
  OBVIOUS
<1>3. PICK m \in Nat : m = n + 1
  OBVIOUS
<1>4. Len(p) = m /\ (\A i \in 1 .. n : p[i] = q[i]) /\ p[m] = e
  BY <1>1, <1>2, <1>3
<1>5. \A i \in 1 .. m : i \in 1 .. n \/ i = m
  BY <1>3
<1>6. \A i, k \in 1 .. m : i < k => i \in 1 .. n
  BY <1>3
<1>7. ASSUME NEW r, r \in Waiting(p) PROVE r \in Waiting(q) \/ r = e
  BY <1>2, <1>4, <1>5, <1>7 DEF Waiting
<1>8. ASSUME NEW r, NEW s, <<r, s>> \in Before(p)
      PROVE  <<r, s>> \in Before(q) \/ (r \in Waiting(q) /\ s = e)
  <2>1. PICK i \in 1 .. m, k \in 1 .. m : i < k /\ r = p[i] /\ s = p[k]
    BY <1>4, <1>8 DEF Before
  <2>2. i \in 1 .. n /\ r = q[i]
    BY <2>1, <1>4, <1>6
  <2>3. CASE k = m
    BY <2>1, <2>2, <2>3, <1>2, <1>4 DEF Waiting
  <2>4. CASE k \in 1 .. n
    BY <2>1, <2>2, <2>4, <1>2, <1>4, BeforeAt
  <2> QED BY <2>3, <2>4, <1>5
<1> QED BY <1>0, <1>1, <1>7, <1>8

\* The first request leaves the queue.
LEMMA Leaves ==
    ASSUME NEW q \in Seq(Request), q # <<>>
    PROVE  /\ Tail(q) \in Seq(Request) /\ Head(q) \in Waiting(q)
           /\ \A r \in Waiting(Tail(q)) : r \in Waiting(q) /\ <<Head(q), r>> \in Before(q)
           /\ \A r, s \in Waiting(Tail(q)) :
                 <<r, s>> \in Before(Tail(q)) => <<r, s>> \in Before(q)
<1>1. PICK p : p = Tail(q)
  OBVIOUS
<1>2. PICK n \in Nat : n = Len(p)
  BY <1>1, HeadTailProperties
<1>3. PICK m \in Nat : m = Len(q)
  OBVIOUS
<1>4. /\ p \in Seq(Request) /\ m = n + 1
      /\ \A i \in 1 .. n : p[i] = q[i + 1]
  BY <1>1, <1>2, <1>3, HeadTailProperties
<1>5. Head(q) = q[1]
  OBVIOUS
<1>6. ASSUME NEW i \in 1 .. n PROVE i + 1 \in 1 .. m /\ 1 \in 1 .. m /\ 1 < i + 1
  BY <1>4
<1>7. ASSUME NEW r, r \in Waiting(p) PROVE r \in Waiting(q) /\ <<Head(q), r>> \in Before(q)
  <2>1. PICK i \in 1 .. n : r = p[i]
    BY <1>2, <1>7 DEF Waiting
  <2>2. PICK k \in 1 .. m : k = i + 1 /\ 1 < k /\ 1 \in 1 .. m
    BY <1>6
  <2>3. r = q[k]
    BY <2>1, <2>2, <1>4
  <2> QED BY <2>2, <2>3, <1>3, <1>5, BeforeAt DEF Waiting
<1>8. ASSUME NEW r, NEW s, <<r, s>> \in Before(p) PROVE <<r, s>> \in Before(q)
  <2>1. PICK i \in 1 .. n, k \in 1 .. n : i < k /\ r = p[i] /\ s = p[k]
    BY <1>2, <1>8, BeforeAt
  <2>2. PICK j \in 1 .. m : j = i + 1
    BY <1>6
  <2>3. PICK l \in 1 .. m : l = k + 1
    BY <1>6
  <2>4. j < l /\ r = q[j] /\ s = q[l]
    BY <2>1, <2>2, <2>3, <1>4
  <2> QED BY <2>4, <1>3, BeforeAt
<1>9. Head(q) \in Waiting(q)
  <2>1. 1 \in 1 .. m
    BY <1>4
  <2> QED BY <2>1, <1>3, <1>5 DEF Waiting
<1> QED BY <1>1, <1>4, <1>7, <1>8, <1>9

\* The request of a page is withdrawn.
LEMMA Withdraws ==
    ASSUME NEW q \in Seq(Request), NEW t, NEW by, NEW p, p = Withdrawn(q, t, by),
           \A r, s \in Waiting(q) : <<r, s>> \in Before(q) => Apart(r, s)
    PROVE  /\ p \in Seq(Request)
           /\ \A r \in Waiting(p) : r \in Waiting(q) /\ ~(r.tab = t /\ r.by = by)
           /\ \A r, s \in Waiting(p) : <<r, s>> \in Before(p) => <<r, s>> \in Before(q)
<1> DEFINE mine == {i \in 1 .. Len(q) : q[i].tab = t /\ q[i].by = by}
           j == CHOOSE i \in mine : TRUE
<1>1. CASE mine = {}
  <2>1. p = q
    BY <1>1 DEF Withdrawn
  <2>2. \A i \in 1 .. Len(q) : ~(q[i].tab = t /\ q[i].by = by)
    BY <1>1
  <2> QED BY <2>1, <2>2 DEF Waiting, Before
<1>2. CASE mine # {}
  <2>1. j \in mine /\ p = SubSeq(q, 1, j - 1) \o SubSeq(q, j + 1, Len(q))
    BY <1>2 DEF Withdrawn
  <2>2. PICK L \in Nat : L = Len(q)
    OBVIOUS
  <2>3. PICK x \in 1 .. L : x = j
    BY <2>1, <2>2
  <2>4. PICK n \in Nat : x = n + 1
    <3>1. x - 1 \in Nat /\ x = (x - 1) + 1
      OBVIOUS
    <3> QED BY <3>1
  <2>5. PICK k \in Nat : x + k = L
    <3>1. L - x \in Nat /\ x + (L - x) = L
      OBVIOUS
    <3> QED BY <3>1
  <2>6. PICK a : a = SubSeq(q, 1, n)
    OBVIOUS
  <2>7. PICK b : b = SubSeq(q, x + 1, L)
    OBVIOUS
  <2>8. p = a \o b
    <3>1. x - 1 = n
      BY <2>4
    <3>2. p = SubSeq(q, 1, x - 1) \o SubSeq(q, x + 1, L)
      BY <2>1, <2>2, <2>3, Zenon
    <3> QED BY <3>1, <3>2, <2>6, <2>7, Zenon
  <2>9. a \in Seq(Request) /\ Len(a) = n /\ \A i \in 1 .. n : a[i] = q[i]
    <3>1. \A i \in 1 .. n : i \in 1 .. L
      BY <2>4
    <3> QED BY <3>1, <2>2, <2>6
  <2>10. b \in Seq(Request) /\ Len(b) = k /\ \A i \in 1 .. k : b[i] = q[x + i]
    <3>1. L - (x + 1) + 1 = k
      BY <2>5
    <3>2. \A i \in 1 .. k : x + 1 + i - 1 = x + i /\ x + i \in 1 .. L
      BY <2>5
    <3> QED BY <3>1, <3>2, <2>2, <2>7
  <2>11. /\ p \in Seq(Request) /\ Len(p) = Len(a) + Len(b)
         /\ \A i \in 1 .. Len(a) + Len(b) : p[i] = IF i <= Len(a) THEN a[i] ELSE b[i - Len(a)]
    <3>1. a \in Seq(Request) /\ b \in Seq(Request)
      BY <2>9, <2>10
    <3>2. /\ a \o b \in Seq(Request)
          /\ Len(a \o b) = Len(a) + Len(b)
          /\ \A i \in 1 .. Len(a) + Len(b) : (a \o b)[i] =
                IF i <= Len(a) THEN a[i] ELSE b[i - Len(a)]
      BY <3>1, ConcatProperties, Zenon
    <3> QED BY <3>2, <2>8, Zenon
  <2>12. PICK l \in Nat : l = n + k
    OBVIOUS
  <2>13. PICK f \in [1 .. l -> 1 .. L] : \A i \in 1 .. l : f[i] = IF i <= n THEN i ELSE i + 1
    <3>1. \A i \in 1 .. l : (IF i <= n THEN i ELSE i + 1) \in 1 .. L
      BY <2>4, <2>5, <2>12
    <3>2. [i \in 1 .. l |-> IF i <= n THEN i ELSE i + 1] \in [1 .. l -> 1 .. L]
      BY <3>1
    <3> QED BY <3>2
  <2>14. Len(p) = l /\ \A i \in 1 .. l : p[i] = q[f[i]]
    <3>1. Len(p) = l /\ \A i \in 1 .. l : p[i] = IF i <= n THEN a[i] ELSE b[i - n]
      BY <2>9, <2>10, <2>11, <2>12
    <3>2. ASSUME NEW i \in 1 .. l PROVE p[i] = q[f[i]]
      <4>1. CASE i <= n
        <5>1. p[i] = a[i] /\ i \in 1 .. n /\ f[i] = i
          BY <4>1, <3>1, <2>13
        <5> QED BY <5>1, <2>9
      <4>2. CASE ~(i <= n)
        <5>1. PICK m \in 1 .. k : m = i - n
          <6>1. i - n \in 1 .. k
            BY <4>2, <2>12
          <6> QED BY <6>1
        <5>2. x + m = i + 1
          BY <5>1, <2>4
        <5>3. p[i] = b[m] /\ f[i] = i + 1
          BY <5>1, <4>2, <3>1, <2>13
        <5> QED BY <5>2, <5>3, <2>10
      <4> QED BY <4>1, <4>2
    <3> QED BY <3>1, <3>2
  <2>15. \A i \in 1 .. l : f[i] # x /\ \A m \in 1 .. l : i < m => f[i] < f[m]
    BY <2>4, <2>13
  <2>16. ASSUME NEW r, r \in Waiting(p) PROVE r \in Waiting(q) /\ ~(r.tab = t /\ r.by = by)
    <3>1. PICK i \in 1 .. l : r = p[i]
      BY <2>14, <2>16 DEF Waiting
    <3>2. PICK m \in 1 .. L : m = f[i] /\ m # x /\ r = q[m]
      BY <3>1, <2>13, <2>14, <2>15
    <3>3. r \in Waiting(q) /\ q[x] \in Waiting(q)
      BY <3>2, <2>2 DEF Waiting
    <3>4. q[x].tab = t /\ q[x].by = by
      BY <2>1, <2>3
    <3>5. <<r, q[x]>> \in Before(q) \/ <<q[x], r>> \in Before(q)
      <4>1. m < x \/ x < m
        BY <3>2
      <4>2. m \in 1 .. Len(q) /\ x \in 1 .. Len(q)
        BY <2>2
      <4> QED BY <4>1, <4>2, <3>2, BeforeAt
    <3> QED BY <3>3, <3>4, <3>5 DEF Apart
  <2>17. ASSUME NEW r, NEW s, <<r, s>> \in Before(p) PROVE <<r, s>> \in Before(q)
    <3>1. PICK i \in 1 .. l, m \in 1 .. l : i < m /\ r = p[i] /\ s = p[m]
      BY <2>14, <2>17 DEF Before
    <3>2. PICK u \in 1 .. L : u = f[i] /\ r = q[u]
      BY <3>1, <2>13, <2>14
    <3>3. PICK v \in 1 .. L : v = f[m] /\ s = q[v]
      BY <3>1, <2>13, <2>14
    <3>4. u < v
      BY <3>1, <3>2, <3>3, <2>15
    <3>5. u \in 1 .. Len(q) /\ v \in 1 .. Len(q)
      BY <2>2
    <3> QED BY <3>2, <3>3, <3>4, <3>5, BeforeAt
  <2> QED BY <2>11, <2>16, <2>17
<1> QED BY <1>1, <1>2

\* The first request leaves, and its caller may ask for something more.
LEMMA AsksNothing ==
    ASSUME NEW q \in Seq(Request), q # <<>>
    PROVE  Tail(q) \o <<>> = Tail(q)
<1>1. Tail(q) \in Seq(Request)
  BY HeadTailProperties
<1> QED BY <1>1, ConcatEmptySeq, Zenon

LEMMA AsksMore ==
    ASSUME NEW q \in Seq(Request), q # <<>>, NEW e \in Request
    PROVE  /\ Tail(q) \o <<e>> = Append(Tail(q), e)
           /\ Append(Tail(q), e) \in Seq(Request)
           /\ \A r \in Waiting(Append(Tail(q), e)) :
                 \/ r \in Waiting(q) /\ <<Head(q), r>> \in Before(q)
                 \/ r = e
           /\ \A r, s \in Waiting(Append(Tail(q), e)) : <<r, s>> \in Before(Append(Tail(q), e)) =>
                 \/ <<r, s>> \in Before(q) /\ <<Head(q), r>> \in Before(q)
                 \/ r \in Waiting(q) /\ <<Head(q), r>> \in Before(q) /\ s = e
<1>1. /\ Tail(q) \in Seq(Request)
      /\ \A r \in Waiting(Tail(q)) : r \in Waiting(q) /\ <<Head(q), r>> \in Before(q)
      /\ \A r, s \in Waiting(Tail(q)) :
            <<r, s>> \in Before(Tail(q)) => <<r, s>> \in Before(q)
  BY Leaves, Zenon
<1>2. Tail(q) \o <<e>> = Append(Tail(q), e)
  BY <1>1, AppendIsConcat, Zenon
<1>3. /\ Append(Tail(q), e) \in Seq(Request)
      /\ \A r \in Waiting(Append(Tail(q), e)) : r \in Waiting(Tail(q)) \/ r = e
      /\ \A r, s \in Waiting(Append(Tail(q), e)) : <<r, s>> \in Before(Append(Tail(q), e)) =>
            \/ <<r, s>> \in Before(Tail(q))
            \/ r \in Waiting(Tail(q)) /\ s = e
  BY <1>1, Joins, Zenon
<1>4. \A r, s : <<r, s>> \in Before(Tail(q)) => r \in Waiting(Tail(q)) /\ s \in Waiting(Tail(q))
  BY <1>1, WaitingRequests, Zenon
<1>5. PICK p : p = Append(Tail(q), e)
  OBVIOUS
<1>6. PICK b : b = Tail(q)
  OBVIOUS
<1>7. ASSUME NEW r \in Waiting(p)
      PROVE  (r \in Waiting(q) /\ <<Head(q), r>> \in Before(q)) \/ r = e
  <2>1. r \in Waiting(b) \/ r = e
    BY <1>3, <1>5, <1>6, Zenon
  <2> QED BY <2>1, <1>1, <1>6, Zenon
<1>8. ASSUME NEW r \in Waiting(p), NEW s \in Waiting(p), <<r, s>> \in Before(p)
      PROVE  \/ <<r, s>> \in Before(q) /\ <<Head(q), r>> \in Before(q)
             \/ r \in Waiting(q) /\ <<Head(q), r>> \in Before(q) /\ s = e
  <2>1. <<r, s>> \in Before(b) \/ (r \in Waiting(b) /\ s = e)
    BY <1>3, <1>5, <1>6, <1>8, Zenon
  <2> QED BY <2>1, <1>1, <1>4, <1>6, Zenon
<1> QED BY <1>2, <1>3, <1>5, <1>7, <1>8, Zenon
-----------------------------------------------------------------------------
(* Copies.                                                                 *)

\* A text laid over another.
LEMMA OverlayTexts ==
    ASSUME NEW a \in [Cue -> Text \cup {None}], NEW b \in [Cue -> Text \cup {None}]
    PROVE  /\ Overlay(a, b) \in [Cue -> Text \cup {None}]
           /\ \A c \in Cue : Overlay(a, b)[c] = IF b[c] # None THEN b[c] ELSE a[c]
BY DEF Overlay

\* A worker's copy takes over what is stored.
Taken(m, k) == [m EXCEPT !.text = Overlay(@, k.text), !.revision = k.revision]

LEMMA TakesOver ==
    ASSUME NEW k \in Task, Valid(k), NEW m \in Task
    PROVE  /\ Taken(m, k) \in Task /\ Taken(m, k).revision = k.revision /\ Alike(Taken(m, k), m)
           /\ Near(m, k) => Agree(Taken(m, k), k)
           /\ Agree(m, k) => Same(Taken(m, k), m)
<1>0. PICK u : u = Taken(m, k)
  OBVIOUS
<1>1. /\ u \in Task /\ u.revision = k.revision /\ u.done = m.done /\ u.conf = m.conf
      /\ u.text = Overlay(m.text, k.text)
  BY <1>0, OverlayTexts DEF Task, Taken
<1>2. \A c \in Cue : u.text[c] = IF k.text[c] # None THEN k.text[c] ELSE m.text[c]
  BY <1>1, OverlayTexts DEF Task
<1>3. k.done \in 0 .. Blocks /\ m.text \in [Cue -> Text \cup {None}]
  BY DEF Task
<1>4. \A c \in Cue : k.text[c] # None <=> c \in 1 .. k.done
  BY <1>3 DEF Valid, Cue
<1>5. 1 .. k.done \subseteq Cue
  BY <1>3, WorkspaceAssumption DEF Cue
<1>6. Near(m, k) => Agree(u, k)
  BY <1>1, <1>2, <1>4, <1>5 DEF Near, Agree
<1>7. ASSUME Agree(m, k) PROVE Same(u, m)
  <2>1. \A c \in Cue : u.text[c] = m.text[c]
    BY <1>2, <1>4, <1>5, <1>7 DEF Agree
  <2>2. u.text \in [Cue -> Text \cup {None}]
    BY <1>1 DEF Task
  <2> QED BY <1>1, <1>3, <2>1, <2>2 DEF Same
<1> QED BY <1>0, <1>1, <1>6, <1>7 DEF Alike

\* A checkpoint is merged into what is stored: a whole task, of the settings and the
\* length of the checkpoint, which agrees with every copy of the checkpoint.
LEMMA Merges ==
    ASSUME NEW k \in Task, Valid(k), NEW c \in Task, Valid(c), k.done <= c.done,
           NEW n, n = Merged(k, c)
    PROVE  /\ n \in Task /\ Valid(n) /\ n.revision = k.revision + 1
           /\ n.done = c.done /\ n.conf = c.conf
           /\ \A i \in 1 .. k.done : n.text[i] = k.text[i]
           /\ Agree(c, k) => n.text = c.text
           /\ k.done = c.done => n.text = k.text
<1>1. /\ n \in Task /\ n.revision = k.revision + 1 /\ n.done = c.done /\ n.conf = c.conf
      /\ n.text = Overlay(c.text, k.text)
  <2>1. Overlay(c.text, k.text) \in [Cue -> Text \cup {None}]
    BY OverlayTexts DEF Task
  <2>2. k.revision + 1 \in Nat
    BY DEF Task
  <2> QED BY <2>1, <2>2 DEF Merged, Task
<1>2. \A i \in Cue : n.text[i] = IF k.text[i] # None THEN k.text[i] ELSE c.text[i]
  BY <1>1, OverlayTexts DEF Task
<1>3. /\ k.done \in 0 .. Blocks /\ c.done \in 0 .. Blocks
      /\ c.text \in [Cue -> Text \cup {None}] /\ k.text \in [Cue -> Text \cup {None}]
  BY DEF Task
<1>4. /\ \A i \in Cue : k.text[i] # None <=> i \in 1 .. k.done
      /\ \A i \in Cue : c.text[i] # None <=> i \in 1 .. c.done
  BY <1>3 DEF Valid, Cue
<1>5. 1 .. k.done \subseteq Cue /\ 1 .. k.done \subseteq 1 .. c.done
  BY <1>3, WorkspaceAssumption DEF Cue
<1>6. Valid(n)
  <2>1. \A i \in Cue : n.text[i] # None <=> c.text[i] # None
    BY <1>2, <1>4, <1>5
  <2> QED BY <2>1, <1>1 DEF Valid
<1>7. ASSUME Agree(c, k) PROVE n.text = c.text
  <2>1. \A i \in Cue : n.text[i] = c.text[i]
    BY <1>2, <1>4, <1>5, <1>7 DEF Agree
  <2>2. n.text \in [Cue -> Text \cup {None}]
    BY <1>1 DEF Task
  <2> QED BY <2>1, <2>2, <1>3
<1>8. ASSUME k.done = c.done PROVE n.text = k.text
  <2>1. \A i \in Cue : n.text[i] = k.text[i]
    BY <1>2, <1>4, <1>8
  <2>2. n.text \in [Cue -> Text \cup {None}]
    BY <1>1 DEF Task
  <2> QED BY <2>1, <2>2, <1>3
<1> QED BY <1>1, <1>2, <1>4, <1>5, <1>6, <1>7, <1>8

\* What a copy becomes when its tab meets a workspace.
LEMMA Meets ==
    ASSUME NEW m \in Task \cup {None}, NEW d, d.task \in Task \cup {None},
           d.task # None => Valid(d.task), NEW since, NEW works, NEW unsaved
    PROVE  /\ Applied(m, d, since, works, unsaved) \in Task \cup {None}
           /\ m # None /\ d.task # None => Applied(m, d, since, works, unsaved) # None
<1>1. CASE d.revision < since \/ (unsaved /\ m # None)
  <2>1. Applied(m, d, since, works, unsaved) = m
    BY <1>1 DEF Applied
  <2> QED BY <2>1
<1>2. CASE ~(d.revision < since \/ (unsaved /\ m # None)) /\ d.task # None /\ m # None /\ works
  <2>1. Applied(m, d, since, works, unsaved) = Taken(m, d.task)
    BY <1>2 DEF Applied, Taken
  <2>2. m \in Task /\ d.task \in Task /\ Valid(d.task)
    BY <1>2
  <2>3. Taken(m, d.task) \in Task
    BY <2>2, TakesOver, Zenon
  <2> QED BY <2>1, <2>3, WorkspaceAssumption
<1>3. CASE /\ ~(d.revision < since \/ (unsaved /\ m # None))
           /\ ~(d.task # None /\ m # None /\ works)
  <2>1. Applied(m, d, since, works, unsaved) = d.task
    BY <1>3 DEF Applied
  <2> QED BY <2>1
<1> QED BY <1>1, <1>2, <1>3

\* An unsaved copy stays what it is.
LEMMA MeetsUnsaved ==
    ASSUME NEW m, m # None, NEW d, NEW since, NEW works, NEW unsaved, unsaved
    PROVE  Applied(m, d, since, works, unsaved) = m
BY DEF Applied

\* A worker's copy keeps its settings and its length.
LEMMA MeetsWorking ==
    ASSUME NEW m \in Task, NEW d, d.task \in Task, Valid(d.task), NEW since, NEW works, works,
           NEW unsaved
    PROVE  Applied(m, d, since, works, unsaved) \in Task /\ Alike(Applied(m, d, since, works, unsaved), m)
<1>1. m # None /\ d.task # None
  BY WorkspaceAssumption
<1>2. CASE d.revision < since \/ unsaved
  <2>1. Applied(m, d, since, works, unsaved) = m
    BY <1>1, <1>2 DEF Applied
  <2> QED BY <2>1 DEF Alike
<1>3. CASE ~(d.revision < since \/ unsaved)
  <2>1. Applied(m, d, since, works, unsaved) = Taken(m, d.task)
    BY <1>1, <1>3 DEF Applied, Taken
  <2>2. Taken(m, d.task) \in Task /\ Alike(Taken(m, d.task), m)
    BY TakesOver, Zenon
  <2> QED BY <2>1, <2>2, Zenon
<1> QED BY <1>2, <1>3

\* One that is not unsaved takes over what is stored.
LEMMA MeetsTaken ==
    ASSUME NEW m \in Task, NEW d, d.task \in Task, Valid(d.task), NEW since, NEW works, works,
           NEW unsaved, ~unsaved, ~(d.revision < since)
    PROVE  /\ Applied(m, d, since, works, unsaved).revision = d.task.revision
           /\ Near(m, d.task) => Agree(Applied(m, d, since, works, unsaved), d.task)
           /\ Agree(m, d.task) => Same(Applied(m, d, since, works, unsaved), m)
<1>1. m # None /\ d.task # None
  BY WorkspaceAssumption
<1>2. Applied(m, d, since, works, unsaved) = Taken(m, d.task)
  BY <1>1 DEF Applied, Taken
<1>3. /\ Taken(m, d.task).revision = d.task.revision
      /\ Near(m, d.task) => Agree(Taken(m, d.task), d.task)
      /\ Agree(m, d.task) => Same(Taken(m, d.task), m)
  BY TakesOver, Zenon
<1> QED BY <1>2, <1>3

\* Any other copy becomes what is stored.
LEMMA MeetsStored ==
    ASSUME NEW m, NEW d, NEW since, NEW works, NEW unsaved, ~(d.revision < since),
           m = None \/ (~unsaved /\ ~works)
    PROVE  Applied(m, d, since, works, unsaved) = d.task
BY DEF Applied

-----------------------------------------------------------------------------
(* Requests fit.                                                           *)

LEMMA Requests ==
    ASSUME NEW t \in Tab, NEW by \in {"main", "editor"}
    PROVE  /\ \A m \in Task, d \in Nat \cup {Clean} :
                 /\ Checkpoint(t, by, m, d) \in Request
                 /\ Checkpoint(t, by, m, d).tab = t /\ Checkpoint(t, by, m, d).by = by
                 /\ Checkpoint(t, by, m, d).copy = m
                 /\ Checkpoint(t, by, m, d).base = IF d # Clean THEN d ELSE m.revision
           /\ Plain(t, by) \in Request
           /\ Plain(t, by).tab = t /\ Plain(t, by).by = by /\ Plain(t, by).copy = None
           /\ None \notin Task
<1>1. None \notin Task
  BY WorkspaceAssumption
<1>2. Plain(t, by) \in Request
  BY DEF Plain, Request
<1>3. ASSUME NEW m \in Task, NEW d \in Nat \cup {Clean} PROVE Checkpoint(t, by, m, d) \in Request
  <2>1. m.revision \in Nat
    BY DEF Task
  <2>2. (IF d # Clean THEN d ELSE m.revision) \in Nat
    BY <2>1
  <2> QED BY <2>2 DEF Checkpoint, Request
<1> QED BY <1>1, <1>2, <1>3 DEF Plain, Checkpoint

\* Without a request of its own in the queue, a tab may take up its lock, or let it go.
LEMMA MainFits ==
    ASSUME TypeOK, QueueFits, NEW t \in Tab, main[t] \notin Saving \cup Asking, draft' = draft,
           \A u \in Tab : u # t => main'[u] = main[u],
           \/ queue' = queue
           \/ \E e \in Request : /\ queue' = Append(queue, e)
                                 /\ e.tab = t /\ e.by = "main"
                                 /\ e.copy # None => Valid(e.copy) /\ main'[t] \in Saving
                                 /\ e.copy = None => main'[t] \in Asking
    PROVE  queue' \in Seq(Request) /\ QueueFits'
<1>1. queue \in Seq(Request)
  BY DEF TypeOK
<1>2. \A r \in Waiting(queue) : r \in Request /\ Fits(r) /\ ~(r.tab = t /\ r.by = "main")
  BY <1>1, WaitingRequests DEF QueueFits, Fits
<1>3. \A r \in Waiting(queue) : Fits(r)'
  BY <1>2 DEF Fits, Request
<1>4. CASE queue' = queue
  BY <1>1, <1>3, <1>4 DEF QueueFits
<1>5. ASSUME NEW e \in Request, queue' = Append(queue, e),
             e.tab = t, e.by = "main",
             e.copy # None => Valid(e.copy) /\ main'[t] \in Saving,
             e.copy = None => main'[t] \in Asking
      PROVE  queue' \in Seq(Request) /\ QueueFits'
  <2>1. /\ queue' \in Seq(Request)
        /\ \A r \in Waiting(queue') : r \in Waiting(queue) \/ r = e
        /\ \A r, s \in Waiting(queue') : <<r, s>> \in Before(queue') =>
              \/ <<r, s>> \in Before(queue)
              \/ r \in Waiting(queue) /\ s = e
    BY <1>1, <1>5, Joins, Zenon
  <2>2. Fits(e)'
    BY <1>5 DEF Fits
  <2>3. \A r \in Waiting(queue') : Fits(r)'
    BY <2>1, <2>2, <1>3
  <2>4. \A r, s \in Waiting(queue') : <<r, s>> \in Before(queue') => Apart(r, s)
    BY <2>1, <1>1, <1>2, <1>5, WaitingRequests DEF QueueFits, Apart
  <2> QED BY <2>1, <2>3, <2>4 DEF QueueFits
<1> QED BY <1>4, <1>5

\* So may an editor start a request.
LEMMA EditorFits ==
    ASSUME TypeOK, QueueFits, NEW t \in Tab, main' = main,
           draft[t] = None \/ draft[t].stage \notin {"retry", "commit"},
           \A u \in Tab : u # t => draft'[u] = draft[u],
           \/ queue' = queue
           \/ \E e \in Request : /\ queue' = Append(queue, e)
                                 /\ e.tab = t /\ e.by = "editor" /\ draft'[t] # None
                                 /\ e.copy # None => Valid(e.copy) /\ draft'[t].stage = "retry"
                                 /\ e.copy = None => draft'[t].stage = "commit"
    PROVE  queue' \in Seq(Request) /\ QueueFits'
<1>1. queue \in Seq(Request)
  BY DEF TypeOK
<1>2. \A r \in Waiting(queue) : r \in Request /\ Fits(r) /\ ~(r.tab = t /\ r.by = "editor")
  BY <1>1, WaitingRequests DEF QueueFits, Fits
<1>3. \A r \in Waiting(queue) : Fits(r)'
  BY <1>2 DEF Fits, Request
<1>4. CASE queue' = queue
  BY <1>1, <1>3, <1>4 DEF QueueFits
<1>5. ASSUME NEW e \in Request, queue' = Append(queue, e),
             e.tab = t, e.by = "editor", draft'[t] # None,
             e.copy # None => Valid(e.copy) /\ draft'[t].stage = "retry",
             e.copy = None => draft'[t].stage = "commit"
      PROVE  queue' \in Seq(Request) /\ QueueFits'
  <2>1. /\ queue' \in Seq(Request)
        /\ \A r \in Waiting(queue') : r \in Waiting(queue) \/ r = e
        /\ \A r, s \in Waiting(queue') : <<r, s>> \in Before(queue') =>
              \/ <<r, s>> \in Before(queue)
              \/ r \in Waiting(queue) /\ s = e
    BY <1>1, <1>5, Joins, ZenonT(30)
  <2>2. Fits(e)'
    BY <1>5 DEF Fits
  <2>3. \A r \in Waiting(queue') : Fits(r)'
    BY <2>1, <2>2, <1>3
  <2>4. \A r, s \in Waiting(queue') : <<r, s>> \in Before(queue') => Apart(r, s)
    BY <2>1, <1>1, <1>2, <1>5, WaitingRequests DEF QueueFits, Apart
  <2> QED BY <2>1, <2>3, <2>4 DEF QueueFits
<1> QED BY <1>4, <1>5

\* The caller at the head of the queue goes on, with another request or without.
LEMMA HeadFits ==
    ASSUME TypeOK, QueueFits, NEW t \in Tab, NEW by \in {"main", "editor"},
           queue # <<>>, Head(queue).tab = t, Head(queue).by = by,
           \A u \in Tab : by = "editor" \/ u # t => main'[u] = main[u],
           \A u \in Tab : by = "main" \/ u # t => draft'[u] = draft[u],
           \/ queue' = Tail(queue)
           \/ \E e \in Request :
                 /\ queue' = Append(Tail(queue), e) \/ queue' = Tail(queue) \o <<e>>
                 /\ e.tab = t /\ e.by = by /\ Fits(e)'
    PROVE  queue' \in Seq(Request) /\ QueueFits'
<1>1. queue \in Seq(Request)
  BY DEF TypeOK
<1>2. Head(queue) \in Waiting(queue)
  BY <1>1, Leaves, Zenon
<1>3. \A r \in Waiting(queue) : r \in Request /\ Fits(r)
  BY <1>1, WaitingRequests DEF QueueFits
<1>4. \A r \in Waiting(queue) :
         <<Head(queue), r>> \in Before(queue) => ~(r.tab = t /\ r.by = by)
  BY <1>2 DEF QueueFits, Apart
<1>5. \A r \in Waiting(queue) : <<Head(queue), r>> \in Before(queue) => Fits(r)'
  BY <1>3, <1>4 DEF Fits, Request
<1>6. CASE queue' = Tail(queue)
  <2>1. /\ queue' \in Seq(Request)
        /\ \A r \in Waiting(queue') :
              r \in Waiting(queue) /\ <<Head(queue), r>> \in Before(queue)
        /\ \A r, s \in Waiting(queue') :
              <<r, s>> \in Before(queue') => <<r, s>> \in Before(queue)
    BY <1>1, <1>6, Leaves, Zenon
  <2> QED BY <2>1, <1>5 DEF QueueFits
<1>7. ASSUME NEW e \in Request,
             queue' = Append(Tail(queue), e) \/ queue' = Tail(queue) \o <<e>>,
             e.tab = t, e.by = by, Fits(e)'
      PROVE  queue' \in Seq(Request) /\ QueueFits'
  <2>1. /\ queue' \in Seq(Request)
        /\ \A r \in Waiting(queue') :
              \/ r \in Waiting(queue) /\ <<Head(queue), r>> \in Before(queue)
              \/ r = e
        /\ \A r, s \in Waiting(queue') : <<r, s>> \in Before(queue') =>
              \/ <<r, s>> \in Before(queue)
              \/ r \in Waiting(queue) /\ <<Head(queue), r>> \in Before(queue) /\ s = e
    <3>1. queue' = Append(Tail(queue), e)
      BY <1>1, <1>7, AsksMore, Zenon
    <3> QED BY <3>1, <1>1, AsksMore, Zenon
  <2>2. \A r \in Waiting(queue') : Fits(r)'
    BY <2>1, <1>5, <1>7
  <2>3. \A r, s \in Waiting(queue') : <<r, s>> \in Before(queue') => Apart(r, s)
    BY <2>1, <1>1, <1>4, <1>7, WaitingRequests, ZenonT(20) DEF QueueFits, Apart
  <2> QED BY <2>1, <2>2, <2>3 DEF QueueFits
<1> QED BY <1>6, <1>7

-----------------------------------------------------------------------------
(* The steps of a tab's own work keep everything fitting.                  *)

LEMMA Nothing ==
    /\ None \notin Tab /\ None \notin Text /\ None \notin Task /\ None \notin Draft
    /\ None \notin Content
    /\ Clean \notin Nat
BY WorkspaceAssumption

LEMMA Typed ==
    ASSUME TypeOK
    PROVE  /\ disk \in [revision : Nat, task : Task \cup {None}]
           /\ disk.revision \in Nat /\ disk.task \in Task \cup {None}
           /\ disk.task # None => disk.task \in Task /\ Valid(disk.task) /\ disk.task.revision \in Nat
<1>1. /\ disk \in [revision : Nat, task : Task \cup {None}]
      /\ disk.revision \in Nat /\ disk.task \in Task \cup {None}
  BY DEF TypeOK
<1>2. disk.task # None => disk.task \in Task /\ Valid(disk.task) /\ disk.task.revision \in Nat
  BY DEF TypeOK, Task
<1> QED BY <1>1, <1>2

LEMMA TypedTabs ==
    ASSUME TypeOK, NEW t \in Tab
    PROVE  /\ mem[t] \in Task \cup {None} /\ (mem[t] # None => mem[t] \in Task)
           /\ seen[t] \in Nat /\ dirty[t] \in Nat \cup {Clean} /\ draft[t] \in Draft \cup {None}
           /\ hand[t] \in Task \cup {None}
           /\ Held(t) \in Task \cup {None} /\ (Held(t) # None => Held(t) \in Task)
BY DEF TypeOK, Held

\* The task of a worker, when neither its copy nor what it has in hand changes.
LEMMA StillHeld ==
    ASSUME NEW t, hand'[t] = hand[t], mem'[t] = mem[t]
    PROVE  Held(t)' = Held(t)
BY DEF Held

\* What startJob and updateJob do with a copy they save.
LEMMA CopySaved ==
    ASSUME TypeOK, QueueFits, NEW t \in Tab, main[t] \notin Saving \cup Asking, draft' = draft,
           NEW m \in Task, NEW l \in Saving, NEW z \in {"closing", "unlock"}, SaveCopy(t, m, l, z)
    PROVE  /\ mem' \in [Tab -> Task \cup {None}] /\ hand' \in [Tab -> Task \cup {None}]
           /\ main' \in [Tab -> Working \cup Fixing \cup {"off"}]
           /\ \A u \in Tab : u # t => mem'[u] = mem[u] /\ hand'[u] = hand[u] /\ main'[u] = main[u]
           /\ hand[t] = None <=> hand'[t] = None
           /\ \/ /\ Valid(m) /\ Held(t)' = m /\ main'[t] = l
                 /\ hand[t] = None => mem'[t] = m
                 /\ queue' = Append(queue, Checkpoint(t, "main", m, dirty[t]))
              \/ mem' = mem /\ hand' = hand /\ main'[t] = z /\ queue' = queue
           /\ queue' \in Seq(Request) /\ QueueFits'
<1>1. /\ mem \in [Tab -> Task \cup {None}] /\ main \in [Tab -> Working \cup Fixing \cup {"off"}]
      /\ hand \in [Tab -> Task \cup {None}] /\ dirty[t] \in Nat \cup {Clean}
  BY DEF TypeOK
<1>2. l \in Working \cup Fixing /\ z \in Working \cup Fixing
  BY DEF Saving, Working, Fixing
<1>3. CASE Valid(m)
  <2>1. /\ Hold(t, m) /\ main' = [main EXCEPT ![t] = l]
        /\ queue' = Append(queue, Checkpoint(t, "main", m, dirty[t]))
    BY <1>3 DEF SaveCopy
  <2>2. PICK e : e = Checkpoint(t, "main", m, dirty[t])
    OBVIOUS
  <2>3. e \in Request /\ e.tab = t /\ e.by = "main" /\ e.copy = m /\ m # None
    <3>1. PICK d \in Nat \cup {Clean} : d = dirty[t]
      BY <1>1
    <3>2. e = Checkpoint(t, "main", m, d)
      BY <2>2, <3>1
    <3>3. e \in Request /\ e.tab = t /\ e.by = "main" /\ e.copy = m
      BY <3>2, Requests
    <3> QED BY <3>3, Nothing
  <2>4. main'[t] = l /\ \A u \in Tab : u # t => main'[u] = main[u]
    BY <2>1, <1>1
  <2>5. queue' \in Seq(Request) /\ QueueFits'
    BY <2>1, <2>2, <2>3, <2>4, <1>3, MainFits
  <2>6. /\ mem' \in [Tab -> Task \cup {None}] /\ hand' \in [Tab -> Task \cup {None}]
        /\ \A u \in Tab : u # t => mem'[u] = mem[u] /\ hand'[u] = hand[u]
        /\ hand[t] = None <=> hand'[t] = None
        /\ hand[t] = None => mem'[t] = m
        /\ Held(t)' = m
    <3>1. CASE hand[t] # None
      <4>1. hand' = [hand EXCEPT ![t] = m] /\ mem' = mem
        BY <3>1, <2>1 DEF Hold
      <4> QED BY <4>1, <3>1, <2>3, <1>1 DEF Held
    <3>2. CASE hand[t] = None
      <4>1. mem' = [mem EXCEPT ![t] = m] /\ hand' = hand
        BY <3>2, <2>1 DEF Hold
      <4> QED BY <4>1, <3>2, <1>1 DEF Held
    <3> QED BY <3>1, <3>2
  <2> QED BY <2>1, <2>4, <2>5, <2>6, <1>1, <1>2, <1>3
<1>4. CASE ~Valid(m)
  <2>1. mem' = mem /\ hand' = hand /\ main' = [main EXCEPT ![t] = z] /\ queue' = queue
    BY <1>4 DEF SaveCopy
  <2>2. main'[t] = z /\ \A u \in Tab : u # t => main'[u] = main[u]
    BY <2>1, <1>1
  <2>3. queue' \in Seq(Request) /\ QueueFits'
    BY <2>1, <2>2, MainFits
  <2> QED BY <2>1, <2>2, <2>3, <1>1, <1>2
<1> QED BY <1>3, <1>4

\* What applyLatest does to the tab's copy.
LEMMA Applies ==
    ASSUME TypeOK, NEW t \in Tab, NEW d, d.revision \in Nat, d.task \in Task \cup {None},
           d.task # None => Valid(d.task), NEW since \in Nat, NEW works, NEW unsaved,
           ApplySince(t, d, since, works, unsaved)
    PROVE  /\ mem' \in [Tab -> Task \cup {None}] /\ seen' \in [Tab -> Nat]
           /\ hand' \in [Tab -> Task \cup {None}]
           /\ \A u \in Tab : u # t => mem'[u] = mem[u] /\ seen'[u] = seen[u] /\ hand'[u] = hand[u]
           /\ mem'[t] = Applied(mem[t], d, since, works, unsaved)
           /\ seen'[t] = Since(since, d)
           /\ hand'[t] = IF works /\ hand[t] = None /\ mem'[t] = None THEN mem[t] ELSE hand[t]
<1>1. /\ mem \in [Tab -> Task \cup {None}] /\ seen \in [Tab -> Nat]
      /\ hand \in [Tab -> Task \cup {None}]
  BY DEF TypeOK
<1>2. Applied(mem[t], d, since, works, unsaved) \in Task \cup {None}
  <2>1. mem[t] \in Task \cup {None}
    BY <1>1
  <2> QED BY <2>1, Meets, Zenon
<1>3. Since(since, d) \in Nat
  BY <1>1 DEF Since
<1>4. /\ mem' = [mem EXCEPT ![t] = Applied(@, d, since, works, unsaved)]
      /\ seen' = [seen EXCEPT ![t] = Since(since, d)]
      /\ hand' = [hand EXCEPT ![t] = IF works /\ @ = None /\ mem'[t] = None THEN mem[t] ELSE @]
  BY Zenon DEF ApplySince
<1>5. /\ mem' \in [Tab -> Task \cup {None}] /\ seen' \in [Tab -> Nat]
      /\ \A u \in Tab : u # t => mem'[u] = mem[u] /\ seen'[u] = seen[u]
      /\ mem'[t] = Applied(mem[t], d, since, works, unsaved)
      /\ seen'[t] = Since(since, d)
  BY <1>1, <1>2, <1>3, <1>4
<1>6. /\ hand' \in [Tab -> Task \cup {None}]
      /\ \A u \in Tab : u # t => hand'[u] = hand[u]
      /\ hand'[t] = IF works /\ hand[t] = None /\ mem'[t] = None THEN mem[t] ELSE hand[t]
  <2>1. PICK n : n = IF works /\ hand[t] = None /\ mem'[t] = None THEN mem[t] ELSE hand[t]
    OBVIOUS
  <2>2. n \in Task \cup {None}
    BY <2>1, <1>1
  <2>3. hand' = [hand EXCEPT ![t] = n]
    BY <2>1, <1>4, Zenon
  <2> QED BY <2>1, <2>2, <2>3, <1>1
<1> QED BY <1>5, <1>6

\* A worker keeps the task it works on, and as much of it.
LEMMA StaysInUse ==
    ASSUME TypeOK, RunFits, NEW t \in Tab, NEW d, d.revision \in Nat, d.task \in Task \cup {None},
           d.task # None => Valid(d.task), NEW since \in Nat, NEW unsaved,
           ApplySince(t, d, since, main[t] \in Working, unsaved)
    PROVE  \A u \in Tab : /\ hand'[u] # None => main[u] \in Working
                          /\ main[u] \in Running => Held(u)' # None
                          /\ main[u] \in {"saving", "sent"} => Held(u)'.done < Blocks
<1>1. /\ \A u \in Tab : u # t => mem'[u] = mem[u] /\ hand'[u] = hand[u]
      /\ mem'[t] = Applied(mem[t], d, since, main[t] \in Working, unsaved)
      /\ hand'[t] = IF main[t] \in Working /\ hand[t] = None /\ mem'[t] = None
                    THEN mem[t] ELSE hand[t]
  <2>1. PICK works : works = (main[t] \in Working)
    OBVIOUS
  <2>2. ApplySince(t, d, since, works, unsaved)
    BY <2>1
  <2>3. /\ \A u \in Tab : u # t => mem'[u] = mem[u] /\ hand'[u] = hand[u]
        /\ mem'[t] = Applied(mem[t], d, since, works, unsaved)
        /\ hand'[t] = IF works /\ hand[t] = None /\ mem'[t] = None THEN mem[t] ELSE hand[t]
    BY <2>2, Applies
  <2> QED BY <2>1, <2>3, Zenon
<1>2. ASSUME NEW u \in Tab, u # t
      PROVE  /\ hand'[u] # None => main[u] \in Working
             /\ main[u] \in Running => Held(u)' # None
             /\ main[u] \in {"saving", "sent"} => Held(u)'.done < Blocks
  BY <1>1, <1>2, StillHeld DEF RunFits
<1>3. hand'[t] # None => main[t] \in Working
  BY <1>1 DEF RunFits
<1>4. ASSUME main[t] \in Running
      PROVE  Held(t)' # None /\ Held(t)'.done = Held(t).done
  <2>1. main[t] \in Working /\ Held(t) # None
    BY <1>4 DEF Running, Working, RunFits
  <2>2. CASE hand[t] # None
    BY <2>1, <2>2, <1>1 DEF Held
  <2>3. CASE hand[t] = None /\ mem'[t] = None
    BY <2>1, <2>3, <1>1 DEF Held
  <2>4. CASE hand[t] = None /\ mem'[t] # None
    <3>1. Held(t) = mem[t] /\ Held(t)' = mem'[t] /\ mem[t] \in Task
      BY <2>1, <2>4, <1>1, TypedTabs DEF Held
    <3>2. CASE d.task = None
      <4>1. mem'[t] = mem[t]
        BY <1>1, <2>4, <3>2, Zenon DEF Applied
      <4> QED BY <3>1, <4>1, <2>1
    <3>3. CASE d.task # None
      <4>1. PICK m : m = Applied(mem[t], d, since, main[t] \in Working, unsaved)
        OBVIOUS
      <4>2. m \in Task /\ Alike(m, mem[t])
        BY <4>1, <3>1, <3>3, <2>1, MeetsWorking, Zenon
      <4> QED BY <4>1, <4>2, <3>1, <2>4, <1>1 DEF Alike
    <3> QED BY <3>2, <3>3
  <2> QED BY <2>2, <2>3, <2>4
<1>5. main[t] \in {"saving", "sent"} => main[t] \in Running /\ Held(t).done < Blocks
  BY DEF Running, RunFits
<1> QED BY <1>2, <1>3, <1>4, <1>5

\* Both, when it treats its copy as what it does says.
LEMMA Heeds ==
    ASSUME TypeOK, RunFits, NEW t \in Tab, NEW d, d.revision \in Nat, d.task \in Task \cup {None},
           d.task # None => Valid(d.task), NEW since \in Nat,
           ApplySince(t, d, since, main[t] \in Working, Unsaved(t))
    PROVE  /\ mem' \in [Tab -> Task \cup {None}] /\ seen' \in [Tab -> Nat]
           /\ hand' \in [Tab -> Task \cup {None}]
           /\ \A u \in Tab : u # t => mem'[u] = mem[u] /\ seen'[u] = seen[u] /\ hand'[u] = hand[u]
           /\ mem'[t] = Applied(mem[t], d, since, main[t] \in Working, Unsaved(t))
           /\ seen'[t] = Since(since, d)
           /\ \A u \in Tab : /\ hand'[u] # None => main[u] \in Working
                             /\ main[u] \in Running => Held(u)' # None
                             /\ main[u] \in {"saving", "sent"} => Held(u)'.done < Blocks
<1>1. PICK works : works = (main[t] \in Working)
  OBVIOUS
<1>2. PICK unsaved : unsaved = Unsaved(t)
  OBVIOUS
<1>3. ApplySince(t, d, since, works, unsaved)
  BY <1>1, <1>2
<1>4. /\ mem' \in [Tab -> Task \cup {None}] /\ seen' \in [Tab -> Nat]
      /\ hand' \in [Tab -> Task \cup {None}]
      /\ \A u \in Tab : u # t => mem'[u] = mem[u] /\ seen'[u] = seen[u] /\ hand'[u] = hand[u]
      /\ mem'[t] = Applied(mem[t], d, since, works, unsaved)
      /\ seen'[t] = Since(since, d)
  BY <1>3, Applies
<1>5. ApplySince(t, d, since, main[t] \in Working, unsaved)
  BY <1>2
<1>6. \A u \in Tab : /\ hand'[u] # None => main[u] \in Working
                     /\ main[u] \in Running => Held(u)' # None
                     /\ main[u] \in {"saving", "sent"} => Held(u)'.done < Blocks
  BY <1>5, StaysInUse
<1> QED BY <1>1, <1>2, <1>4, <1>6

\* A step that leaves the workers and what they have alone.
LEMMA StillRuns ==
    ASSUME RunFits, mem' = mem, hand' = hand, main' = main, clears' = clears, disk' = disk
    PROVE  RunFits'
<1>1. \A u \in Tab : Held(u)' = Held(u)
  BY StillHeld
<1> QED BY <1>1 DEF RunFits

\* A tab that applies the workspace at its revision is not ahead of it.
LEMMA StaysBehind ==
    ASSUME TypeOK, NeverAhead, NEW t \in Tab, NEW since \in Nat,
           t \notin cleared' \cup missed' => (since = seen[t] /\ t \notin cleared \cup missed) \/ since = 0,
           disk'.revision \in Nat, disk.revision <= disk'.revision,
           seen'[t] = Since(since, disk'),
           \A u \in Tab : u # t => seen'[u] = seen[u]
                                   /\ (u \notin cleared' \cup missed' => u \notin cleared \cup missed)
    PROVE  NeverAhead'
<1>1. disk.revision \in Nat /\ \A u \in Tab : seen[u] \in Nat
  BY Typed, TypedTabs
<1>2. ASSUME NEW u \in Tab, u # t, u \notin cleared' \cup missed' PROVE seen'[u] <= disk'.revision
  BY <1>1, <1>2 DEF NeverAhead
<1>3. ASSUME t \notin cleared' \cup missed' PROVE seen'[t] <= disk'.revision
  <2>1. since <= disk'.revision
    BY <1>1, <1>3 DEF NeverAhead
  <2> QED BY <2>1 DEF Since
<1> QED BY <1>2, <1>3 DEF NeverAhead

LEMMA StartFits ==
    ASSUME Fitting, NEW t \in Tab, Start(t)
    PROVE  Fitting'
<1>1. TypeOK /\ QueueFits /\ RunFits /\ NeverAhead
  BY DEF Fitting
<1>2. /\ main[t] = "off" /\ mem[t] \in Task /\ mem[t] # None /\ holder = None /\ holder' = t
      /\ dirty' = dirty /\ draft' = draft /\ Unwritten /\ Calm
  BY <1>1, Nothing DEF Start, TypeOK
<1>3. ASSUME Unsaved(t) PROVE Fitting'
  <2>1. SaveCopy(t, mem[t], "retry", "closing") /\ seen' = seen
    BY <1>3 DEF Start
  <2>2. main[t] \notin Saving \cup Asking /\ "retry" \in Saving
    BY <1>2 DEF Saving, Asking
  <2>3. /\ mem' \in [Tab -> Task \cup {None}] /\ hand' \in [Tab -> Task \cup {None}]
        /\ main' \in [Tab -> Working \cup Fixing \cup {"off"}]
        /\ \A u \in Tab : u # t => mem'[u] = mem[u] /\ hand'[u] = hand[u] /\ main'[u] = main[u]
        /\ main'[t] \in {"retry", "closing"}
        /\ queue' \in Seq(Request) /\ QueueFits'
    BY <1>1, <1>2, <2>1, <2>2, CopySaved
  <2>4. TypeOK'
    BY <1>1, <1>2, <2>1, <2>3, Nothing DEF TypeOK, Unwritten, Calm
  <2>5. RunFits'
    BY <1>1, <1>2, <2>3, StillHeld DEF RunFits, Unwritten, Calm, Working, Running
  <2>6. NeverAhead'
    BY <1>1, <1>2, <2>1 DEF NeverAhead, Unwritten, Calm
  <2> QED BY <2>3, <2>4, <2>5, <2>6 DEF Fitting
<1>4. ASSUME ~Unsaved(t) PROVE Fitting'
  <2>1. /\ mem' = [mem EXCEPT ![t] = IF disk.task # None THEN disk.task
                                     ELSE Applied(@, disk, seen[t], TRUE, FALSE)]
        /\ seen' = [seen EXCEPT ![t] = Since(@, disk)]
        /\ main' = [main EXCEPT ![t] = Begin(disk.task)]
        /\ queue' = queue /\ hand' = hand
    BY <1>4 DEF Start
  <2>2. (IF disk.task # None THEN disk.task ELSE Applied(mem[t], disk, seen[t], TRUE, FALSE))
           \in Task \cup {None}
    <3>1. disk.task \in Task \cup {None} /\ mem[t] \in Task \cup {None}
      BY <1>1 DEF TypeOK
    <3>2. CASE disk.task = None
      <4>1. Applied(mem[t], disk, seen[t], TRUE, FALSE)
               = IF disk.revision < seen[t] THEN mem[t] ELSE None
        BY <3>2, Zenon DEF Applied
      <4> QED BY <3>1, <3>2, <4>1
    <3> QED BY <3>1, <3>2
  <2>3. Since(seen[t], disk) \in Nat
    BY <1>1 DEF Since, TypeOK
  <2>4. Begin(disk.task) \in {"run", "closing"} /\ (Begin(disk.task) = "run" => disk.task # None)
    BY DEF Begin
  <2>5. /\ mem' \in [Tab -> Task \cup {None}] /\ seen' \in [Tab -> Nat]
        /\ main' \in [Tab -> Working \cup Fixing \cup {"off"}]
        /\ \A u \in Tab : u # t => mem'[u] = mem[u] /\ main'[u] = main[u] /\ seen'[u] = seen[u]
        /\ main'[t] = Begin(disk.task) /\ seen'[t] = Since(seen[t], disk)
        /\ disk.task # None => mem'[t] = disk.task
    BY <1>1, <2>1, <2>2, <2>3, <2>4 DEF TypeOK, Working, Fixing
  <2>6. queue' \in Seq(Request) /\ QueueFits'
    BY <1>1, <1>2, <2>1, <2>5, MainFits DEF Saving, Asking
  <2>7. TypeOK'
    BY <1>1, <1>2, <2>1, <2>4, <2>5, <2>6, Nothing DEF TypeOK, Unwritten, Calm
  <2>8. RunFits'
    <3>1. hand[t] = None /\ \A u \in Tab : hand'[u] = hand[u]
      BY <1>1, <1>2, <2>1 DEF RunFits, Working
    <3>2. ASSUME main'[t] = "run" PROVE Held(t)' # None /\ disk'.task # None
      BY <3>1, <3>2, <1>2, <2>4, <2>5 DEF Held, Unwritten
    <3>3. main'[t] \in {"run", "closing"}
      BY <2>4, <2>5
    <3> QED BY <3>1, <3>2, <3>3, <1>1, <1>2, <2>5, StillHeld
            DEF RunFits, Unwritten, Calm, Running
  <2>9. NeverAhead'
    BY <1>1, <1>2, <2>5, Typed DEF NeverAhead, Unwritten, Calm, Since
  <2> QED BY <2>6, <2>7, <2>8, <2>9 DEF Fitting
<1> QED BY <1>3, <1>4

LEMMA RunSaveFits ==
    ASSUME Fitting, NEW t \in Tab, RunSave(t)
    PROVE  Fitting'
<1>1. TypeOK /\ QueueFits /\ RunFits /\ NeverAhead
  BY DEF Fitting
<1>2. /\ main[t] \in {"run", "sent"} /\ Held(t).done < Blocks
      /\ SaveCopy(t, Held(t), "saving", "closing")
      /\ seen' = seen /\ dirty' = dirty /\ holder' = holder /\ draft' = draft /\ Unwritten /\ Calm
  BY DEF RunSave
<1>3. main[t] \in Running /\ Held(t) \in Task /\ Held(t) # None /\ (clears = 0 => disk.task # None)
  BY <1>1, <1>2, TypedTabs DEF RunFits, Running
<1>4. main[t] \notin Saving \cup Asking /\ "saving" \in Saving
  BY <1>2 DEF Saving, Asking
<1>5. /\ mem' \in [Tab -> Task \cup {None}] /\ hand' \in [Tab -> Task \cup {None}]
      /\ main' \in [Tab -> Working \cup Fixing \cup {"off"}]
      /\ \A u \in Tab : u # t => mem'[u] = mem[u] /\ hand'[u] = hand[u] /\ main'[u] = main[u]
      /\ Held(t)' = Held(t) /\ (main'[t] = "saving" \/ main'[t] = "closing")
      /\ queue' \in Seq(Request) /\ QueueFits'
  <2>1. PICK m \in Task : m = Held(t)
    BY <1>3
  <2>2. SaveCopy(t, m, "saving", "closing") /\ draft' = draft
    BY <2>1, <1>2
  <2> QED BY <2>1, <2>2, <1>1, <1>4, CopySaved, StillHeld
<1>6. TypeOK'
  BY <1>1, <1>2, <1>5, Nothing DEF TypeOK, Unwritten, Calm
<1>7. RunFits'
  BY <1>1, <1>2, <1>3, <1>5, StillHeld DEF RunFits, Unwritten, Calm, Working, Running
<1>8. NeverAhead'
  BY <1>1, <1>2 DEF NeverAhead, Unwritten, Calm
<1> QED BY <1>5, <1>6, <1>7, <1>8 DEF Fitting

\* The answer is one more block of the copy, which had one left.
Answer(m, v) == [m EXCEPT !.done = @ + 1, !.text[m.done + 1] = v]

LEMMA Answered ==
    ASSUME NEW m \in Task, m.done < Blocks, NEW v \in Text
    PROVE  /\ Answer(m, v) \in Task /\ Answer(m, v).done = m.done + 1
           /\ Answer(m, v).conf = m.conf /\ Answer(m, v).revision = m.revision
           /\ \A c \in Cue : c # m.done + 1 => Answer(m, v).text[c] = m.text[c]
<1>0. PICK n : n = Answer(m, v)
  OBVIOUS
<1>1. /\ m.done \in 0 .. Blocks /\ m.text \in [Cue -> Text \cup {None}]
      /\ m.revision \in Nat /\ m.conf \in Conf
  BY DEF Task
<1>2. PICK d \in Cue : d = m.done + 1
  BY <1>1, WorkspaceAssumption DEF Cue
<1>3. d \in 0 .. Blocks
  BY <1>2, WorkspaceAssumption DEF Cue
<1>4. n = [revision |-> m.revision, done |-> d, text |-> [m.text EXCEPT ![d] = v], conf |-> m.conf]
  BY <1>0, <1>2 DEF Task, Answer
<1>5. [m.text EXCEPT ![d] = v] \in [Cue -> Text \cup {None}]
  BY <1>1
<1>6. n \in Task
  BY <1>1, <1>3, <1>4, <1>5 DEF Task
<1>7. \A c \in Cue : c # d => [m.text EXCEPT ![d] = v][c] = m.text[c]
  BY <1>1
<1> QED BY <1>0, <1>2, <1>4, <1>6, <1>7

LEMMA AnswerBlockFits ==
    ASSUME Fitting, NEW t \in Tab, AnswerBlock(t)
    PROVE  Fitting'
<1>1. TypeOK /\ QueueFits /\ RunFits /\ NeverAhead
  BY DEF Fitting
<1>2. /\ main[t] = "sent"
      /\ seen' = seen /\ dirty' = dirty /\ holder' = holder /\ draft' = draft /\ Unwritten /\ Calm
  BY DEF AnswerBlock
<1>3. /\ main[t] \in Running /\ Held(t) \in Task /\ Held(t) # None /\ Held(t).done < Blocks
      /\ clears = 0 => disk.task # None
  BY <1>1, <1>2, TypedTabs DEF RunFits, Running
<1>4. PICK v \in Text : SaveCopy(t, Answer(Held(t), v), "keeping", "closing")
  BY DEF AnswerBlock, Answer
<1>5. PICK m : m = Answer(Held(t), v)
  OBVIOUS
<1>6. m \in Task /\ m # None
  BY <1>3, <1>5, Answered, Nothing
<1>7. main[t] \notin Saving \cup Asking /\ "keeping" \in Saving
  BY <1>2 DEF Saving, Asking
<1>8. /\ mem' \in [Tab -> Task \cup {None}] /\ hand' \in [Tab -> Task \cup {None}]
      /\ main' \in [Tab -> Working \cup Fixing \cup {"off"}]
      /\ \A u \in Tab : u # t => mem'[u] = mem[u] /\ hand'[u] = hand[u] /\ main'[u] = main[u]
      /\ (main'[t] = "keeping" /\ Held(t)' # None) \/ main'[t] = "closing"
      /\ queue' \in Seq(Request) /\ QueueFits'
  BY <1>1, <1>2, <1>3, <1>4, <1>5, <1>6, <1>7, CopySaved
<1>9. TypeOK'
  BY <1>1, <1>2, <1>8, Nothing DEF TypeOK, Unwritten, Calm
<1>10. RunFits'
  BY <1>1, <1>2, <1>3, <1>8, StillHeld DEF RunFits, Unwritten, Calm, Working, Running
<1>11. NeverAhead'
  BY <1>1, <1>2 DEF NeverAhead, Unwritten, Calm
<1> QED BY <1>8, <1>9, <1>10, <1>11 DEF Fitting

LEMMA RunEndFits ==
    ASSUME Fitting, NEW t \in Tab, RunEnd(t)
    PROVE  Fitting'
<1>1. TypeOK /\ QueueFits /\ RunFits /\ NeverAhead
  BY DEF Fitting
<1>2. /\ main[t] \in {"run", "sent"}
      /\ seen' = seen /\ dirty' = dirty /\ holder' = holder /\ draft' = draft /\ Unwritten /\ Calm
  BY DEF RunEnd
<1>3. main[t] \in Running /\ Held(t) \in Task /\ Held(t) # None /\ (clears = 0 => disk.task # None)
  BY <1>1, <1>2, TypedTabs DEF RunFits, Running
<1>4. main[t] \notin Saving \cup Asking /\ "last" \in Saving
  BY <1>2 DEF Saving, Asking
<1>5. /\ mem' \in [Tab -> Task \cup {None}] /\ hand' \in [Tab -> Task \cup {None}]
      /\ main' \in [Tab -> Working \cup Fixing \cup {"off"}]
      /\ \A u \in Tab : u # t => mem'[u] = mem[u] /\ hand'[u] = hand[u] /\ main'[u] = main[u]
      /\ main'[t] \in {"last", "closing"}
      /\ queue' \in Seq(Request) /\ QueueFits'
  <2>1. CASE Held(t).done < Blocks
    <3>1. SaveCopy(t, Held(t), "last", "closing")
      BY <2>1 DEF RunEnd
    <3> QED BY <3>1, <1>1, <1>2, <1>3, <1>4, CopySaved
  <2>2. CASE ~(Held(t).done < Blocks)
    <3>1. main' = [main EXCEPT ![t] = "closing"] /\ mem' = mem /\ hand' = hand /\ queue' = queue
      BY <2>2 DEF RunEnd
    <3>2. /\ main' \in [Tab -> Working \cup Fixing \cup {"off"}] /\ main'[t] = "closing"
          /\ \A u \in Tab : u # t => main'[u] = main[u]
      BY <3>1, <1>1 DEF TypeOK, Working
    <3>3. queue' \in Seq(Request) /\ QueueFits'
      BY <3>1, <3>2, <1>1, <1>2, <1>4, MainFits
    <3> QED BY <3>1, <3>2, <3>3, <1>1 DEF TypeOK
  <2> QED BY <2>1, <2>2
<1>6. TypeOK'
  BY <1>1, <1>2, <1>5, Nothing DEF TypeOK, Unwritten, Calm
<1>7. RunFits'
  BY <1>1, <1>2, <1>3, <1>5, StillHeld DEF RunFits, Unwritten, Calm, Working, Running
<1>8. NeverAhead'
  BY <1>1, <1>2 DEF NeverAhead, Unwritten, Calm
<1> QED BY <1>5, <1>6, <1>7, <1>8 DEF Fitting

LEMMA FinishFits ==
    ASSUME Fitting, NEW t \in Tab, Finish(t)
    PROVE  Fitting'
<1>1. TypeOK /\ QueueFits /\ RunFits /\ NeverAhead
  BY DEF Fitting
<1>2. /\ main[t] = "closing" /\ holder' = None /\ main' = [main EXCEPT ![t] = "off"]
      /\ mem' = [mem EXCEPT ![t] = Applied(@, disk, seen[t], FALSE, Unsaved(t))]
      /\ seen' = [seen EXCEPT ![t] = Since(@, disk)]
      /\ hand' = [hand EXCEPT ![t] = None]
      /\ dirty' = dirty /\ queue' = queue /\ draft' = draft /\ Unwritten /\ Calm
  BY DEF Finish
<1>3. /\ mem' \in [Tab -> Task \cup {None}] /\ seen' \in [Tab -> Nat]
      /\ \A u \in Tab : u # t => mem'[u] = mem[u] /\ seen'[u] = seen[u]
      /\ seen'[t] = Since(seen[t], disk)
      /\ hand' \in [Tab -> Task \cup {None}] /\ hand'[t] = None
      /\ \A u \in Tab : u # t => hand'[u] = hand[u]
  <2>1. Applied(mem[t], disk, seen[t], FALSE, Unsaved(t)) \in Task \cup {None}
    <3>1. /\ mem[t] \in Task \cup {None} /\ disk.task \in Task \cup {None}
          /\ disk.task # None => Valid(disk.task)
      BY <1>1, Typed, TypedTabs
    <3> QED BY <3>1, Meets, Zenon
  <2>2. Since(seen[t], disk) \in Nat
    BY <1>1, Typed, TypedTabs DEF Since
  <2> QED BY <2>1, <2>2, <1>1, <1>2 DEF TypeOK
<1>4. /\ main' \in [Tab -> Working \cup Fixing \cup {"off"}] /\ main'[t] = "off"
      /\ \A u \in Tab : u # t => main'[u] = main[u]
  BY <1>1, <1>2 DEF TypeOK
<1>5. queue' \in Seq(Request) /\ QueueFits'
  BY <1>1, <1>2, <1>4, MainFits DEF Saving, Asking
<1>0. /\ main[t] = "closing" /\ holder' = None
      /\ dirty' = dirty /\ queue' = queue /\ draft' = draft /\ Unwritten /\ Calm
  BY <1>2
<1>6. TypeOK'
  BY <1>1, <1>0, <1>3, <1>4, <1>5, Nothing DEF TypeOK, Unwritten, Calm
<1>7. RunFits'
  BY <1>1, <1>0, <1>3, <1>4, StillHeld DEF RunFits, Unwritten, Calm, Running
<1>8. NeverAhead'
  BY <1>1, <1>0, <1>3, Typed DEF NeverAhead, Unwritten, Calm, Since
<1> QED BY <1>5, <1>6, <1>7, <1>8 DEF Fitting

-----------------------------------------------------------------------------
(* So do saves.                                                            *)

\* The head of the queue: a checkpoint, or a request of another kind.
LEMMA HeadOf ==
    ASSUME TypeOK, QueueFits, NEW t \in Tab, NEW by \in {"main", "editor"}, NEW save \in BOOLEAN,
           Granted(t, by, save)
    PROVE  /\ queue \in Seq(Request) /\ queue # <<>>
           /\ Head(queue) \in Waiting(queue) /\ Head(queue) \in Request /\ Fits(Head(queue))
           /\ Head(queue).tab = t /\ Head(queue).by = by /\ Head(queue).base \in Nat
           /\ save => Head(queue).copy \in Task /\ Head(queue).copy # None /\ Valid(Head(queue).copy)
           /\ by = "main" => main[t] \in IF save THEN Saving ELSE Asking
           /\ by = "editor" => /\ draft[t] # None /\ draft[t] \in Draft
                               /\ draft[t].stage = IF save THEN "retry" ELSE "commit"
<1>1. queue \in Seq(Request) /\ queue # <<>>
  BY DEF TypeOK, Granted
<1>2. Head(queue) \in Waiting(queue)
  BY <1>1, Leaves, Zenon
<1>3. Head(queue) \in Request /\ Fits(Head(queue))
  BY <1>1, <1>2, WaitingRequests DEF QueueFits
<1>4. Head(queue).tab = t /\ Head(queue).by = by /\ (Head(queue).copy # None) = save
  BY DEF Granted
<1>5. Head(queue).base \in Nat /\ Head(queue).copy \in Task \cup {None}
  BY <1>3 DEF Request
<1>6. draft[t] \in Draft \cup {None}
  BY DEF TypeOK
<1> QED BY <1>1, <1>2, <1>3, <1>4, <1>5, <1>6 DEF Fits

\* The save is of a task that the worker has in hand.
Loose(t, by) == by = "main" /\ hand[t] # None

LEMMA MergedHead ==
    ASSUME TypeOK, QueueFits, NEW t \in Tab, NEW by \in {"main", "editor"}, SaveMerged(t, by),
           NEW k, k = Merged(disk.task, Head(queue).copy),
           NEW m, m = Applied(mem[t], disk', seen[t], main[t] \in Working, Unsaved(t))
    PROVE  /\ disk.task \in Task /\ disk.task # None /\ Valid(disk.task)
           /\ disk.task.done <= Head(queue).copy.done
           /\ Unsaved(t) => disk.task.revision = Head(queue).base
           /\ k \in Task /\ k # None /\ Valid(k) /\ k.revision = disk.task.revision + 1
           /\ disk' = [revision |-> disk.revision + 1, task |-> k]
           /\ disk'.revision = disk.revision + 1 /\ disk'.task = k
           /\ changes' = changes
           /\ others' = [u \in Tab |-> IF u = t THEN others[u] ELSE k.revision]
           /\ m \in Task \cup {None} /\ (mem[t] # None => m # None)
           /\ mem' \in [Tab -> Task \cup {None}] /\ \A u \in Tab : u # t => mem'[u] = mem[u]
           /\ Loose(t, by) => mem'[t] = m
           /\ ~Loose(t, by) /\ by = "main" /\ main[t] = "retry" => mem'[t] = k
           /\ ~(by = "main" /\ main[t] = "retry") /\ m = None => mem'[t] = None
           /\ ~Loose(t, by) /\ ~(by = "main" /\ main[t] = "retry") /\ m # None =>
                 /\ mem'[t] # None /\ mem'[t].revision = k.revision
                 /\ mem'[t].done = m.done /\ mem'[t].conf = m.conf /\ mem'[t].text = m.text
           /\ hand' \in [Tab -> Task \cup {None}] /\ \A u \in Tab : u # t => hand'[u] = hand[u]
           /\ ~Loose(t, by) => hand'[t] = hand[t]
           /\ Loose(t, by) => /\ hand'[t] # None
                              /\ main[t] = "retry" => hand'[t] = k
                              /\ main[t] # "retry" => hand'[t].done = hand[t].done
           /\ seen' \in [Tab -> Nat] /\ seen'[t] = Since(seen[t], disk')
           /\ \A u \in Tab : u # t => seen'[u] = seen[u]
           /\ dirty' \in [Tab -> Nat \cup {Clean}] /\ dirty'[t] = Clean
           /\ \A u \in Tab : u # t => dirty'[u] = dirty[u]
           /\ holder' = holder /\ Calm
           /\ Saved(t, by, k)
<1> DEFINE p == Head(queue)
<1>1. p \in Request /\ p.copy \in Task /\ Valid(p.copy)
  <2>1. Granted(t, by, TRUE)
    BY DEF SaveMerged
  <2> QED BY <2>1, HeadOf
<1>2. /\ disk.task # None /\ disk.task.done <= p.copy.done
      /\ Unsaved(t) => disk.task.revision = p.base
  BY DEF SaveMerged, MayMerge
<1>3. disk.task \in Task /\ Valid(disk.task) /\ disk.revision \in Nat /\ seen[t] \in Nat
  BY <1>2, Typed, TypedTabs
<1>4. k \in Task /\ Valid(k) /\ k.revision = disk.task.revision + 1
  BY <1>1, <1>2, <1>3, Merges
<1>5. k # None
  BY <1>4, Nothing
<1>6. /\ Write(t, k, 0)
      /\ mem' = [mem EXCEPT ![t] = IF by = "main" /\ main[t] = "retry" /\ ~Loose(t, by) THEN k
                                   ELSE IF m = None \/ Loose(t, by) THEN m
                                   ELSE [m EXCEPT !.revision = k.revision]]
      /\ hand' = [hand EXCEPT ![t] = IF ~Loose(t, by) THEN @
                                     ELSE IF by = "main" /\ main[t] = "retry" THEN k
                                     ELSE [@ EXCEPT !.revision = k.revision]]
      /\ Saved(t, by, k)
      /\ seen' = [seen EXCEPT ![t] = Since(@, disk')]
      /\ dirty' = [dirty EXCEPT ![t] = Clean]
      /\ holder' = holder /\ Calm
  BY Zenon DEF SaveMerged, Loose
<1>7. /\ disk' = [revision |-> disk.revision + 1, task |-> k]
      /\ disk'.revision = disk.revision + 1 /\ disk'.task = k
      /\ changes' = changes
      /\ others' = [u \in Tab |-> IF u = t THEN others[u] ELSE k.revision]
  BY <1>5, <1>6 DEF Write, TypeOK
<1>8. disk' \in [revision : Nat, task : Task \cup {None}]
  BY <1>3, <1>4, <1>7
<1>9. mem \in [Tab -> Task \cup {None}] /\ seen \in [Tab -> Nat] /\ dirty \in [Tab -> Nat \cup {Clean}]
  BY DEF TypeOK
<1>10. m \in Task \cup {None} /\ (mem[t] # None => m # None)
  <2>1. mem[t] \in Task \cup {None} /\ disk'.task \in Task \cup {None} /\ Valid(disk'.task)
        /\ disk'.task # None
    BY <1>4, <1>5, <1>7, <1>9
  <2>2. /\ Applied(mem[t], disk', seen[t], main[t] \in Working, Unsaved(t)) \in Task \cup {None}
        /\ mem[t] # None => Applied(mem[t], disk', seen[t], main[t] \in Working, Unsaved(t)) # None
    BY <2>1, Meets
  <2> QED BY <2>2, Zenon
<1>11. /\ mem' \in [Tab -> Task \cup {None}] /\ \A u \in Tab : u # t => mem'[u] = mem[u]
       /\ Loose(t, by) => mem'[t] = m
       /\ ~Loose(t, by) /\ by = "main" /\ main[t] = "retry" => mem'[t] = k
       /\ ~(by = "main" /\ main[t] = "retry") /\ m = None => mem'[t] = None
       /\ ~Loose(t, by) /\ ~(by = "main" /\ main[t] = "retry") /\ m # None =>
             /\ mem'[t] # None /\ mem'[t].revision = k.revision
             /\ mem'[t].done = m.done /\ mem'[t].conf = m.conf /\ mem'[t].text = m.text
  <2>0. CASE Loose(t, by)
    <3>1. mem' = [mem EXCEPT ![t] = m]
      BY <1>6, <2>0
    <3> QED BY <3>1, <2>0, <1>9, <1>10
  <2>1. CASE by = "main" /\ main[t] = "retry" /\ ~Loose(t, by)
    <3>1. mem' = [mem EXCEPT ![t] = k]
      BY <1>6, <2>1
    <3> QED BY <3>1, <2>1, <1>4, <1>9
  <2>2. CASE ~(by = "main" /\ main[t] = "retry") /\ m = None /\ ~Loose(t, by)
    <3>1. mem' = [mem EXCEPT ![t] = None]
      BY <1>6, <2>2
    <3> QED BY <3>1, <2>2, <1>9
  <2>3. CASE ~(by = "main" /\ main[t] = "retry") /\ m # None /\ ~Loose(t, by)
    <3>1. PICK n : n = [m EXCEPT !.revision = k.revision]
      OBVIOUS
    <3>2. m \in Task /\ k.revision \in Nat
      BY <1>4, <1>10, <2>3 DEF Task
    <3>3. /\ n \in Task /\ n.revision = k.revision
          /\ n.done = m.done /\ n.conf = m.conf /\ n.text = m.text
      BY <3>1, <3>2 DEF Task
    <3>4. n # None
      BY <3>3, Nothing
    <3>5. mem' = [mem EXCEPT ![t] = n]
      BY <1>6, <2>3, <3>1
    <3> QED BY <3>3, <3>4, <3>5, <2>3, <1>9
  <2> QED BY <2>0, <2>1, <2>2, <2>3
<1>14. /\ hand' \in [Tab -> Task \cup {None}] /\ \A u \in Tab : u # t => hand'[u] = hand[u]
       /\ ~Loose(t, by) => hand'[t] = hand[t]
       /\ Loose(t, by) => /\ hand'[t] # None
                          /\ main[t] = "retry" => hand'[t] = k
                          /\ main[t] # "retry" => hand'[t].done = hand[t].done
  <2>1. hand \in [Tab -> Task \cup {None}]
    BY DEF TypeOK
  <2>2. CASE ~Loose(t, by)
    <3>1. hand' = [hand EXCEPT ![t] = hand[t]]
      BY <1>6, <2>2
    <3> QED BY <3>1, <2>1, <2>2
  <2>3. CASE Loose(t, by) /\ main[t] = "retry"
    <3>1. hand' = [hand EXCEPT ![t] = k]
      BY <1>6, <2>3 DEF Loose
    <3> QED BY <3>1, <2>1, <2>3, <1>4, <1>5
  <2>4. CASE Loose(t, by) /\ main[t] # "retry"
    <3>1. PICK n : n = [hand[t] EXCEPT !.revision = k.revision]
      OBVIOUS
    <3>2. hand[t] \in Task /\ k.revision \in Nat
      BY <2>1, <2>4, <1>4 DEF Task, Loose
    <3>3. n \in Task /\ n.done = hand[t].done
      BY <3>1, <3>2 DEF Task
    <3>4. n # None
      BY <3>3, Nothing
    <3>5. hand' = [hand EXCEPT ![t] = n]
      BY <1>6, <2>4, <3>1
    <3> QED BY <3>3, <3>4, <3>5, <2>1, <2>4
  <2> QED BY <2>2, <2>3, <2>4
<1>12. /\ seen' \in [Tab -> Nat] /\ seen'[t] = Since(seen[t], disk')
       /\ \A u \in Tab : u # t => seen'[u] = seen[u]
  <2>1. Since(seen[t], disk') \in Nat
    BY <1>3, <1>7 DEF Since
  <2> QED BY <2>1, <1>6, <1>9
<1>13. /\ dirty' \in [Tab -> Nat \cup {Clean}] /\ dirty'[t] = Clean
       /\ \A u \in Tab : u # t => dirty'[u] = dirty[u]
  BY <1>6, <1>9
<1> HIDE DEF p
<1> QED BY <1>2, <1>3, <1>4, <1>5, <1>6, <1>7, <1>10, <1>11, <1>12, <1>13, <1>14 DEF p

\* A draft moves on.
LEMMA Stages ==
    ASSUME TypeOK, NEW t \in Tab, draft[t] \in Draft, NEW s \in Stage,
           draft' = [draft EXCEPT ![t].stage = s]
    PROVE  /\ draft' \in [Tab -> Draft \cup {None}]
           /\ draft'[t] \in Draft /\ draft'[t] # None /\ draft'[t].stage = s
           /\ \A u \in Tab : u # t => draft'[u] = draft[u]
<1>1. draft \in [Tab -> Draft \cup {None}]
  BY DEF TypeOK
<1>2. PICK n : n = [draft[t] EXCEPT !.stage = s]
  OBVIOUS
<1>3. n \in Draft /\ n.stage = s
  BY <1>2 DEF Draft
<1>4. draft' = [draft EXCEPT ![t] = n]
  BY <1>2
<1> QED BY <1>1, <1>3, <1>4, Nothing

\* What the caller of a save does next.
LEMMA SavedOn ==
    ASSUME TypeOK, QueueFits, NEW t \in Tab, NEW by \in {"main", "editor"}, Granted(t, by, TRUE),
           NEW k, Saved(t, by, k)
    PROVE  /\ main' \in [Tab -> Working \cup Fixing \cup {"off"}]
           /\ draft' \in [Tab -> Draft \cup {None}]
           /\ \A u \in Tab : by = "editor" \/ u # t => main'[u] = main[u]
           /\ \A u \in Tab : by = "main" \/ u # t => draft'[u] = draft[u]
           /\ queue' \in Seq(Request) /\ QueueFits'
           /\ by = "main" => /\ main[t] \in Saving
                             /\ main[t] = "retry" => main'[t] = Begin(k)
                             /\ main[t] = "saving" => main'[t] = "sent"
                             /\ main[t] = "keeping" => main'[t] = "run"
                             /\ main[t] = "last" => main'[t] = "closing"
                             /\ main[t] = "fixRetry" => main'[t] = "fix"
           /\ \/ queue' = Tail(queue)
              \/ by = "main" /\ main'[t] = "fix" /\ queue' = Append(Tail(queue), Plain(t, "main"))
              \/ by = "editor" /\ queue' = Append(Tail(queue), Plain(t, "editor"))
<1>1. /\ queue \in Seq(Request) /\ queue # <<>> /\ Head(queue).tab = t /\ Head(queue).by = by
      /\ by = "main" => main[t] \in Saving
      /\ by = "editor" => draft[t] \in Draft
  BY HeadOf
<1>2. main \in [Tab -> Working \cup Fixing \cup {"off"}] /\ draft \in [Tab -> Draft \cup {None}]
  BY DEF TypeOK
<1>3. CASE by = "editor"
  <2>1. /\ draft' = [draft EXCEPT ![t].stage = "commit"] /\ main' = main
        /\ queue' = Append(Tail(queue), Plain(t, "editor"))
    BY <1>3 DEF Saved
  <2>2. /\ draft' \in [Tab -> Draft \cup {None}] /\ draft'[t] # None /\ draft'[t].stage = "commit"
        /\ \A u \in Tab : u # t => draft'[u] = draft[u]
    BY <2>1, <1>1, <1>3, Stages DEF Stage
  <2>3. PICK e \in Request : e = Plain(t, "editor") /\ e.tab = t /\ e.by = "editor" /\ e.copy = None
    BY Requests
  <2>4. Fits(e)'
    BY <2>2, <2>3 DEF Fits
  <2>5. queue' \in Seq(Request) /\ QueueFits'
    BY <2>1, <2>2, <2>3, <2>4, <1>1, <1>3, HeadFits, ZenonT(20)
  <2> QED BY <2>1, <2>2, <2>5, <1>2, <1>3
<1>4. CASE by = "main"
  <2>1. PICK l, ask : /\ Follow(t, l, ask) /\ draft' = draft
                      /\ main[t] = "retry" => l = Begin(k)
                      /\ main[t] = "saving" => l = "sent"
                      /\ main[t] = "keeping" => l = "run"
                      /\ main[t] = "last" => l = "closing"
                      /\ main[t] = "fixRetry" => l = "fix"
                      /\ \/ ask = <<>>
                         \/ l = "fix" /\ ask = <<Plain(t, "main")>>
    BY <1>1, <1>4 DEF Saved, Saving
  <2>2. l \in Working \cup Fixing
    BY <2>1, <1>1, <1>4 DEF Saving, Begin, Working, Fixing
  <2>3. main' = [main EXCEPT ![t] = l] /\ queue' = Tail(queue) \o ask
    BY <2>1 DEF Follow
  <2>4. /\ main' \in [Tab -> Working \cup Fixing \cup {"off"}] /\ main'[t] = l
        /\ \A u \in Tab : u # t => main'[u] = main[u]
    BY <2>2, <2>3, <1>2
  <2>5. CASE ask = <<>>
    <3>1. queue' = Tail(queue)
      BY <2>3, <2>5, <1>1, AsksNothing, Zenon
    <3>2. queue' \in Seq(Request) /\ QueueFits'
      BY <3>1, <2>1, <2>4, <1>1, <1>4, HeadFits
    <3> QED BY <3>1, <3>2, <2>1, <2>4, <1>1, <1>2, <1>4
  <2>6. CASE l = "fix" /\ ask = <<Plain(t, "main")>>
    <3>1. PICK e \in Request : e = Plain(t, "main") /\ e.tab = t /\ e.by = "main" /\ e.copy = None
      BY Requests
    <3>2. queue' = Append(Tail(queue), e)
      <4>1. queue' = Tail(queue) \o <<e>>
        BY <2>3, <2>6, <3>1
      <4> QED BY <4>1, <1>1, AsksMore, Zenon
    <3>3. Fits(e)'
      BY <2>4, <2>6, <3>1 DEF Fits, Asking
    <3>4. queue' \in Seq(Request) /\ QueueFits'
      BY <3>1, <3>2, <3>3, <2>1, <2>4, <1>1, <1>4, HeadFits
    <3> QED BY <3>1, <3>2, <3>4, <2>1, <2>4, <2>6, <1>1, <1>2, <1>4
  <2> QED BY <2>1, <2>5, <2>6
<1> QED BY <1>3, <1>4

LEMMA SaveMergedFits ==
    ASSUME Fitting, NEW t \in Tab, NEW by \in {"main", "editor"}, SaveMerged(t, by)
    PROVE  Fitting'
<1>1. TypeOK /\ QueueFits /\ RunFits /\ NeverAhead
  BY DEF Fitting
<1>2. Granted(t, by, TRUE)
  BY DEF SaveMerged
<1>3. PICK k : k = Merged(disk.task, Head(queue).copy)
  OBVIOUS
<1>4. PICK m : m = Applied(mem[t], disk', seen[t], main[t] \in Working, Unsaved(t))
  OBVIOUS
<1>5. /\ k \in Task /\ k # None /\ Valid(k) /\ k.revision = disk.task.revision + 1
      /\ disk.task \in Task /\ disk.task # None
      /\ disk' = [revision |-> disk.revision + 1, task |-> k]
      /\ disk'.revision = disk.revision + 1 /\ disk'.task = k
      /\ changes' = changes
      /\ others' = [u \in Tab |-> IF u = t THEN others[u] ELSE k.revision]
      /\ mem' \in [Tab -> Task \cup {None}] /\ (\A u \in Tab : u # t => mem'[u] = mem[u])
      /\ hand' \in [Tab -> Task \cup {None}] /\ (\A u \in Tab : u # t => hand'[u] = hand[u])
      /\ (hand'[t] # None <=> hand[t] # None)
      /\ seen' \in [Tab -> Nat] /\ seen'[t] = Since(seen[t], disk')
      /\ \A u \in Tab : u # t => seen'[u] = seen[u]
      /\ dirty' \in [Tab -> Nat \cup {Clean}]
      /\ holder' = holder /\ Calm
      /\ Saved(t, by, k)
  BY <1>1, <1>3, <1>4, MergedHead DEF Loose
<1>6. /\ main' \in [Tab -> Working \cup Fixing \cup {"off"}]
      /\ draft' \in [Tab -> Draft \cup {None}]
      /\ \A u \in Tab : by = "editor" \/ u # t => main'[u] = main[u]
      /\ queue' \in Seq(Request) /\ QueueFits'
      /\ by = "main" => /\ main[t] \in Saving
                        /\ main[t] = "retry" => main'[t] = Begin(k)
                        /\ main[t] = "saving" => main'[t] = "sent"
                        /\ main[t] = "keeping" => main'[t] = "run"
                        /\ main[t] = "last" => main'[t] = "closing"
                        /\ main[t] = "fixRetry" => main'[t] = "fix"
  BY <1>1, <1>2, <1>5, SavedOn
<1>7. disk.revision \in Nat /\ disk.task.revision \in Nat /\ seen[t] \in Nat
  BY <1>1, <1>5, Typed, TypedTabs
<1>8. main[t] # "off" <=> main'[t] # "off"
  BY <1>6 DEF Saving, Begin
<1>9. TypeOK'
  <2>1. disk' \in [revision : Nat, task : Task \cup {None}] /\ disk'.task.revision <= disk'.revision
    BY <1>1, <1>5, <1>7, SMTT(20) DEF TypeOK
  <2>2. others' \in [Tab -> Nat]
    <3>1. k.revision \in Nat
      BY <1>5, <1>7
    <3> QED BY <3>1, <1>1, <1>5 DEF TypeOK
  <2> QED BY <2>1, <2>2, <1>1, <1>5, <1>6, <1>8, SMTT(20) DEF TypeOK, Calm
<1>10. RunFits'
  <2>1. \A u \in Tab : u # t => main'[u] = main[u] /\ mem'[u] = mem[u] /\ hand'[u] = hand[u]
    BY <1>5, <1>6
  <2>2. hand'[t] # None => main'[t] \in Working
    BY <1>1, <1>5, <1>6 DEF RunFits, Working, Saving, Begin
  <2>3. /\ Loose(t, by) => mem'[t] = m
        /\ ~Loose(t, by) /\ by = "main" /\ main[t] = "retry" => mem'[t] = k
        /\ ~Loose(t, by) /\ ~(by = "main" /\ main[t] = "retry") /\ m # None =>
              mem'[t] # None /\ mem'[t].done = m.done
        /\ ~Loose(t, by) => hand'[t] = hand[t]
        /\ Loose(t, by) => /\ hand'[t] # None
                           /\ main[t] = "retry" => hand'[t] = k
                           /\ main[t] # "retry" => hand'[t].done = hand[t].done
    BY <1>1, <1>3, <1>4, MergedHead
  <2>4. ASSUME by = "main", main[t] = "retry" PROVE Held(t)' # None
    BY <2>3, <2>4, <1>5 DEF Held, Loose
  <2>5. ASSUME main[t] \in Running
        PROVE  Held(t)' # None /\ Held(t)'.done = Held(t).done
    <3>1. main[t] \in Working /\ main[t] # "retry" /\ Held(t) # None
      BY <2>5, <1>1 DEF RunFits, Running, Working
    <3>2. CASE Loose(t, by)
      BY <3>1, <3>2, <2>3 DEF Held, Loose
    <3>3. CASE ~Loose(t, by) /\ hand[t] # None
      BY <3>1, <3>3, <2>3 DEF Held
    <3>4. CASE ~Loose(t, by) /\ hand[t] = None
      <4>1. Held(t) = mem[t] /\ mem[t] \in Task /\ Held(t)' = mem'[t]
        BY <3>1, <3>4, <2>3, <1>1, TypedTabs DEF Held
      <4>2. disk'.task \in Task /\ Valid(disk'.task)
        BY <1>5
      <4>3. m \in Task /\ Alike(m, mem[t])
        BY <4>1, <4>2, <3>1, <1>4, MeetsWorking, Zenon
      <4>4. m # None
        BY <4>3, Nothing
      <4> QED BY <4>1, <4>3, <4>4, <3>1, <3>4, <2>3 DEF Alike
    <3> QED BY <3>2, <3>3, <3>4
  <2>6. ASSUME main'[t] \in Running PROVE Held(t)' # None
    <3>1. main[t] \in Running \/ (by = "main" /\ main[t] = "retry")
      BY <2>6, <1>6 DEF Saving, Running
    <3> QED BY <3>1, <2>4, <2>5
  <2>7. ASSUME main'[t] \in {"saving", "sent"} PROVE Held(t)'.done < Blocks
    <3>1. main[t] \in {"saving", "sent"} /\ main[t] \in Running
      BY <2>7, <1>6 DEF Saving, Begin, Running
    <3> QED BY <3>1, <2>5, <1>1 DEF RunFits
  <2>8. disk'.task # None
    BY <1>5
  <2> QED BY <2>1, <2>2, <2>6, <2>7, <2>8, <1>1, StillHeld DEF RunFits
<1>11. NeverAhead'
  BY <1>1, <1>5, <1>7, TypedTabs DEF NeverAhead, Calm, Since
<1> QED BY <1>6, <1>9, <1>10, <1>11 DEF Fitting

LEMMA NotSavedOn ==
    ASSUME TypeOK, QueueFits, RunFits, NEW t \in Tab, NEW by \in {"main", "editor"},
           Granted(t, by, TRUE), NEW base \in Nat, NotSaved(t, by, base)
    PROVE  /\ main' \in [Tab -> Working \cup Fixing \cup {"off"}]
           /\ draft' \in [Tab -> Draft \cup {None}]
           /\ \A u \in Tab : by = "editor" \/ u # t => main'[u] = main[u]
           /\ \A u \in Tab : by = "main" \/ u # t => draft'[u] = draft[u]
           /\ queue' \in Seq(Request) /\ QueueFits'
           /\ by = "main" => /\ main[t] \in Saving
                             /\ main'[t] \in {"last", "unlock", "closing"}
                             /\ main'[t] = "last" => main[t] \in {"saving", "keeping"} /\ Valid(Held(t))
           /\ \/ queue' = Tail(queue)
              \/ /\ by = "main" /\ main'[t] = "last"
                 /\ queue' = Append(Tail(queue), Checkpoint(t, "main", Held(t), base))
<1>1. /\ queue \in Seq(Request) /\ queue # <<>> /\ Head(queue).tab = t /\ Head(queue).by = by
      /\ by = "main" => main[t] \in Saving
      /\ by = "editor" => draft[t] \in Draft
  BY HeadOf
<1>2. main \in [Tab -> Working \cup Fixing \cup {"off"}] /\ draft \in [Tab -> Draft \cup {None}]
  BY DEF TypeOK
<1>3. CASE by = "editor"
  <2>1. draft' = [draft EXCEPT ![t].stage = "failed"] /\ main' = main /\ queue' = Tail(queue)
    BY <1>3 DEF NotSaved
  <2>2. /\ draft' \in [Tab -> Draft \cup {None}]
        /\ \A u \in Tab : u # t => draft'[u] = draft[u]
    BY <2>1, <1>1, <1>3, Stages DEF Stage
  <2>3. queue' \in Seq(Request) /\ QueueFits'
    BY <2>1, <2>2, <1>1, <1>3, HeadFits
  <2> QED BY <2>1, <2>2, <2>3, <1>2, <1>3
<1>4. CASE by = "main"
  <2>1. PICK l, ask : /\ Follow(t, l, ask) /\ draft' = draft
                      /\ l \in {"last", "unlock", "closing"}
                      /\ l = "last" => main[t] \in {"saving", "keeping"} /\ Valid(Held(t))
                      /\ \/ ask = <<>>
                         \/ l = "last" /\ ask = <<Checkpoint(t, "main", Held(t), base)>>
    BY <1>1, <1>4 DEF NotSaved, Saving
  <2>2. l \in Working \cup Fixing
    BY <2>1 DEF Working, Fixing
  <2>3. main' = [main EXCEPT ![t] = l] /\ queue' = Tail(queue) \o ask
    BY <2>1 DEF Follow
  <2>4. /\ main' \in [Tab -> Working \cup Fixing \cup {"off"}] /\ main'[t] = l
        /\ \A u \in Tab : u # t => main'[u] = main[u]
    BY <2>2, <2>3, <1>2
  <2>5. CASE ask = <<>>
    <3>1. queue' = Tail(queue)
      BY <2>3, <2>5, <1>1, AsksNothing, Zenon
    <3>2. queue' \in Seq(Request) /\ QueueFits'
      BY <3>1, <2>1, <2>4, <1>1, <1>4, HeadFits
    <3> QED BY <3>1, <3>2, <2>1, <2>4, <1>1, <1>2, <1>4
  <2>6. CASE l = "last" /\ ask = <<Checkpoint(t, "main", Held(t), base)>>
    <3>1. Held(t) \in Task /\ base \in Nat \cup {Clean}
      BY <2>1, <2>6, TypedTabs DEF RunFits, Running
    <3>2. PICK e \in Request : /\ e = Checkpoint(t, "main", Held(t), base)
                               /\ e.tab = t /\ e.by = "main" /\ e.copy = Held(t)
      BY <3>1, Requests
    <3>3. queue' = Append(Tail(queue), e)
      <4>1. queue' = Tail(queue) \o <<e>>
        BY <2>3, <2>6, <3>2
      <4> QED BY <4>1, <1>1, AsksMore, Zenon
    <3>4. Fits(e)'
      BY <2>1, <2>4, <2>6, <3>1, <3>2, Nothing DEF Fits, Saving
    <3>5. queue' \in Seq(Request) /\ QueueFits'
      BY <3>2, <3>3, <3>4, <2>1, <2>4, <1>1, <1>4, HeadFits, ZenonT(20)
    <3> QED BY <3>2, <3>3, <3>5, <2>1, <2>4, <2>6, <1>1, <1>2, <1>4
  <2> QED BY <2>1, <2>5, <2>6
<1> QED BY <1>3, <1>4

\* A write that does not go through.
LEMMA RefusedOne ==
    ASSUME TypeOK, NEW why, Refused(why)
    PROVE  /\ clearing' = clearing /\ cleared' = cleared /\ missed' = missed
           /\ clears' = clears /\ imports' = imports /\ Unwritten
           /\ faults' \in 0 .. MaxFaults
<1>1. faults \in 0 .. MaxFaults /\ MaxFaults \in Nat
  BY WorkspaceAssumption DEF TypeOK
<1>2. faults' = faults \/ (faults < MaxFaults /\ faults' = faults + 1)
  BY Zenon DEF Refused
<1>3. /\ clearing' = clearing /\ cleared' = cleared /\ missed' = missed
      /\ clears' = clears /\ imports' = imports /\ Unwritten
  BY DEF Refused
<1> QED BY <1>1, <1>2, <1>3

LEMMA SaveFailsFits ==
    ASSUME Fitting, NEW t \in Tab, NEW by \in {"main", "editor"}, SaveFails(t, by)
    PROVE  Fitting'
<1>1. TypeOK /\ QueueFits /\ RunFits /\ NeverAhead
  BY DEF Fitting
<1>2. /\ Granted(t, by, TRUE) /\ dirty' = [dirty EXCEPT ![t] = Head(queue).base]
      /\ NotSaved(t, by, Head(queue).base)
      /\ mem' = mem /\ hand' = hand /\ seen' = seen /\ holder' = holder
      /\ clearing' = clearing /\ cleared' = cleared /\ missed' = missed
      /\ clears' = clears /\ imports' = imports /\ Unwritten
      /\ faults' \in 0 .. MaxFaults
  <2>1. Refused(~MayMerge(t, Head(queue)))
    BY DEF SaveFails
  <2> QED BY <2>1, <1>1, RefusedOne, Zenon DEF SaveFails
<1>3. Head(queue).base \in Nat
  BY <1>1, <1>2, HeadOf
<1>4. /\ main' \in [Tab -> Working \cup Fixing \cup {"off"}]
      /\ draft' \in [Tab -> Draft \cup {None}]
      /\ \A u \in Tab : by = "editor" \/ u # t => main'[u] = main[u]
      /\ queue' \in Seq(Request) /\ QueueFits'
      /\ by = "main" => main[t] \in Saving /\ main'[t] \in {"last", "unlock", "closing"}
      /\ hand[t] # None => main'[t] \in Working
  <2>1. /\ main' \in [Tab -> Working \cup Fixing \cup {"off"}]
        /\ draft' \in [Tab -> Draft \cup {None}]
        /\ \A u \in Tab : by = "editor" \/ u # t => main'[u] = main[u]
        /\ queue' \in Seq(Request) /\ QueueFits'
        /\ by = "main" => main[t] \in Saving /\ main'[t] \in {"last", "unlock", "closing"}
    BY <1>1, <1>2, <1>3, NotSavedOn
  <2>2. ASSUME hand[t] # None, by = "main" PROVE main'[t] \in Working
    <3>1. main[t] \in Working /\ main[t] # "fixRetry"
      BY <2>2, <1>1 DEF RunFits, Working
    <3>2. PICK l, ask : Follow(t, l, ask) /\ l \in {"last", "closing"}
      BY <2>2, <3>1, <1>2 DEF NotSaved
    <3> QED BY <3>2, <1>1 DEF Follow, TypeOK, Working
  <2> QED BY <2>1, <2>2, <1>1 DEF RunFits
<1>5. dirty' \in [Tab -> Nat \cup {Clean}]
  BY <1>1, <1>2, <1>3 DEF TypeOK
<1>6. main[t] # "off" <=> main'[t] # "off"
  BY <1>4 DEF Saving
<1>7. TypeOK'
  BY <1>1, <1>2, <1>4, <1>5, <1>6 DEF TypeOK, Unwritten
<1>8. RunFits'
  <2>1. \A u \in Tab : main'[u] \in Running => main'[u] = main[u]
    BY <1>4 DEF Running
  <2>2. \A u \in Tab : hand'[u] # None => main'[u] \in Working
    BY <1>1, <1>2, <1>4 DEF RunFits
  <2>3. main'[t] = main[t] \/ main'[t] \notin {"saving", "sent"}
    BY <1>4
  <2> QED BY <2>1, <2>2, <2>3, <1>1, <1>2, <1>4, StillHeld DEF RunFits, Unwritten, Running
<1>9. NeverAhead'
  BY <1>1, <1>2 DEF NeverAhead, Unwritten
<1> QED BY <1>4, <1>7, <1>8, <1>9 DEF Fitting

-----------------------------------------------------------------------------
(* Editors.                                                                *)

LEMMA TypeFits ==
    ASSUME Fitting, NEW t \in Tab, NEW c \in Cue, NEW v \in Text, Type(t, c, v)
    PROVE  Fitting'
<1>1. TypeOK /\ QueueFits /\ RunFits /\ NeverAhead
  BY DEF Fitting
<1>2. /\ draft[t] = None /\ mem[t] # None /\ mem[t].text[c] # None
      /\ draft' = [draft EXCEPT ![t] = [stage |-> "open", cue |-> c, value |-> v,
                                        previous |-> mem[t].text[c]]]
      /\ mem' = mem /\ hand' = hand /\ seen' = seen /\ dirty' = dirty
      /\ holder' = holder /\ main' = main
      /\ queue' = queue /\ Unwritten /\ Calm
  BY DEF Type
<1>3. mem[t].text[c] \in Text
  <2>1. mem[t] \in Task
    BY <1>1, <1>2, TypedTabs
  <2>2. mem[t].text \in [Cue -> Text \cup {None}]
    BY <2>1 DEF Task
  <2> QED BY <2>2, <1>2
<1>4. PICK d \in Draft : d = [stage |-> "open", cue |-> c, value |-> v, previous |-> mem[t].text[c]]
  BY <1>3 DEF Draft, Stage
<1>5. draft' \in [Tab -> Draft \cup {None}] /\ \A u \in Tab : u # t => draft'[u] = draft[u]
  BY <1>1, <1>2, <1>4 DEF TypeOK
<1>6. queue' \in Seq(Request) /\ QueueFits'
  BY <1>1, <1>2, <1>5, EditorFits
<1>7. TypeOK'
  BY <1>1, <1>2, <1>5 DEF TypeOK, Unwritten, Calm
<1>8. RunFits' /\ NeverAhead'
  BY <1>1, <1>2, StillRuns DEF NeverAhead, Unwritten, Calm
<1> QED BY <1>6, <1>7, <1>8 DEF Fitting

LEMMA SaveDraftFits ==
    ASSUME Fitting, NEW t \in Tab, SaveDraft(t)
    PROVE  Fitting'
<1>1. TypeOK /\ QueueFits /\ RunFits /\ NeverAhead
  BY DEF Fitting
<1>2. /\ draft[t] # None /\ draft[t].stage = "open"
      /\ mem' = mem /\ hand' = hand /\ seen' = seen /\ dirty' = dirty
      /\ holder' = holder /\ main' = main
      /\ Unwritten /\ Calm
  BY DEF SaveDraft
<1>3. draft[t] \in Draft
  BY <1>1, <1>2, TypedTabs
<1>4. /\ draft' \in [Tab -> Draft \cup {None}]
      /\ \A u \in Tab : u # t => draft'[u] = draft[u]
      /\ queue' \in Seq(Request) /\ QueueFits'
  <2>1. CASE mem[t] = None \/ ~Unsaved(t)
    <3>1. draft' = [draft EXCEPT ![t].stage = "commit"] /\ queue' = Append(queue, Plain(t, "editor"))
      BY <2>1 DEF SaveDraft
    <3>2. /\ draft' \in [Tab -> Draft \cup {None}] /\ draft'[t] # None /\ draft'[t].stage = "commit"
          /\ \A u \in Tab : u # t => draft'[u] = draft[u]
      BY <3>1, <1>1, <1>3, Stages DEF Stage
    <3>3. PICK e \in Request : e = Plain(t, "editor") /\ e.tab = t /\ e.by = "editor" /\ e.copy = None
      BY Requests
    <3>4. queue' \in Seq(Request) /\ QueueFits'
      BY <3>1, <3>2, <3>3, <1>1, <1>2, EditorFits
    <3> QED BY <3>2, <3>4
  <2>2. CASE ~(mem[t] = None \/ ~Unsaved(t)) /\ Valid(mem[t])
    <3>1. /\ draft' = [draft EXCEPT ![t].stage = "retry"]
          /\ queue' = Append(queue, Checkpoint(t, "editor", mem[t], dirty[t]))
      BY <2>2 DEF SaveDraft
    <3>2. /\ draft' \in [Tab -> Draft \cup {None}] /\ draft'[t] # None /\ draft'[t].stage = "retry"
          /\ \A u \in Tab : u # t => draft'[u] = draft[u]
      BY <3>1, <1>1, <1>3, Stages DEF Stage
    <3>3. mem[t] \in Task /\ dirty[t] \in Nat \cup {Clean}
      BY <2>2, <1>1, TypedTabs
    <3>4. PICK e \in Request : /\ e = Checkpoint(t, "editor", mem[t], dirty[t])
                               /\ e.tab = t /\ e.by = "editor" /\ e.copy = mem[t]
      <4>1. PICK m \in Task, d \in Nat \cup {Clean} : m = mem[t] /\ d = dirty[t]
        BY <3>3
      <4> QED BY <4>1, Requests
    <3>5. queue' \in Seq(Request) /\ QueueFits'
      BY <3>1, <3>2, <3>4, <2>2, <1>1, <1>2, EditorFits
    <3> QED BY <3>2, <3>5
  <2>3. CASE ~(mem[t] = None \/ ~Unsaved(t)) /\ ~Valid(mem[t])
    <3>1. draft' = [draft EXCEPT ![t].stage = "failed"] /\ queue' = queue
      BY <2>3 DEF SaveDraft
    <3>2. /\ draft' \in [Tab -> Draft \cup {None}]
          /\ \A u \in Tab : u # t => draft'[u] = draft[u]
      BY <3>1, <1>1, <1>3, Stages DEF Stage
    <3>3. queue' \in Seq(Request) /\ QueueFits'
      BY <3>1, <3>2, <1>1, <1>2, EditorFits
    <3> QED BY <3>2, <3>3
  <2> QED BY <2>1, <2>2, <2>3
<1>5. TypeOK'
  BY <1>1, <1>2, <1>4 DEF TypeOK, Unwritten, Calm
<1>6. RunFits' /\ NeverAhead'
  BY <1>1, <1>2, StillRuns DEF NeverAhead, Unwritten, Calm
<1> QED BY <1>4, <1>5, <1>6 DEF Fitting

LEMMA KeepMineFits ==
    ASSUME Fitting, NEW t \in Tab, KeepMine(t)
    PROVE  Fitting'
<1>1. TypeOK /\ QueueFits /\ RunFits /\ NeverAhead
  BY DEF Fitting
<1>2. /\ draft[t] # None /\ draft[t].stage = "failed"
      /\ draft' = [draft EXCEPT ![t].stage = "open",
                                ![t].previous = IF mem[t] # None /\ mem[t].text[draft[t].cue] # None
                                                THEN mem[t].text[draft[t].cue] ELSE @]
      /\ mem' = mem /\ hand' = hand /\ seen' = seen /\ dirty' = dirty
      /\ holder' = holder /\ main' = main
      /\ queue' = queue /\ Unwritten /\ Calm
  BY DEF KeepMine
<1>3. draft[t] \in Draft
  BY <1>1, <1>2, TypedTabs
<1>4. PICK p \in Text : p = IF mem[t] # None /\ mem[t].text[draft[t].cue] # None
                            THEN mem[t].text[draft[t].cue] ELSE draft[t].previous
  <2>1. draft[t].cue \in Cue /\ draft[t].previous \in Text
    BY <1>3 DEF Draft
  <2>2. ASSUME mem[t] # None PROVE mem[t].text[draft[t].cue] \in Text \cup {None}
    <3>1. mem[t] \in Task
      BY <2>2, <1>1, TypedTabs
    <3>2. mem[t].text \in [Cue -> Text \cup {None}]
      BY <3>1 DEF Task
    <3> QED BY <3>2, <2>1
  <2> QED BY <2>1, <2>2
<1>5. PICK d : d = [draft[t] EXCEPT !.stage = "open", !.previous = p]
  OBVIOUS
<1>6. d \in Draft
  BY <1>3, <1>4, <1>5 DEF Draft, Stage
<1>7. draft \in [Tab -> Draft \cup {None}]
  BY <1>1 DEF TypeOK
<1>8. draft' = [draft EXCEPT ![t] = d]
  BY <1>2, <1>4, <1>5, <1>7
<1>9. draft' \in [Tab -> Draft \cup {None}] /\ \A u \in Tab : u # t => draft'[u] = draft[u]
  BY <1>6, <1>7, <1>8
<1>10. queue' \in Seq(Request) /\ QueueFits'
  BY <1>1, <1>2, <1>9, EditorFits
<1>11. TypeOK'
  BY <1>1, <1>2, <1>9 DEF TypeOK, Unwritten, Calm
<1>12. RunFits' /\ NeverAhead'
  BY <1>1, <1>2, StillRuns DEF NeverAhead, Unwritten, Calm
<1> QED BY <1>10, <1>11, <1>12 DEF Fitting

LEMMA DropDraftFits ==
    ASSUME Fitting, NEW t \in Tab, DropDraft(t)
    PROVE  Fitting'
<1>1. TypeOK /\ QueueFits /\ RunFits /\ NeverAhead
  BY DEF Fitting
<1>2. /\ draft[t] # None /\ draft[t].stage \in {"open", "failed"}
      /\ draft' = [draft EXCEPT ![t] = None]
      /\ mem' = mem /\ hand' = hand /\ seen' = seen /\ dirty' = dirty
      /\ holder' = holder /\ main' = main
      /\ queue' = queue /\ Unwritten /\ Calm
  BY DEF DropDraft
<1>3. draft' \in [Tab -> Draft \cup {None}] /\ \A u \in Tab : u # t => draft'[u] = draft[u]
  BY <1>1, <1>2 DEF TypeOK
<1>4. queue' \in Seq(Request) /\ QueueFits'
  BY <1>1, <1>2, <1>3, EditorFits
<1>5. TypeOK'
  BY <1>1, <1>2, <1>3 DEF TypeOK, Unwritten, Calm
<1>6. RunFits' /\ NeverAhead'
  BY <1>1, <1>2, StillRuns DEF NeverAhead, Unwritten, Calm
<1> QED BY <1>4, <1>5, <1>6 DEF Fitting

\* The stored task with one text corrected is a stored task of the next revision.
Correction(k, c, v) == [k EXCEPT !.text[c] = v, !.revision = @ + 1]
Corrects(n, k, c, v) ==
    /\ n \in Task /\ Valid(n) /\ n.revision = k.revision + 1 /\ Alike(n, k)
    /\ n.text[c] = v /\ \A i \in Cue : i # c => n.text[i] = k.text[i]

LEMMA Corrected ==
    ASSUME NEW k \in Task, Valid(k), NEW c \in Cue, c <= k.done, NEW v \in Text
    PROVE  Corrects(Correction(k, c, v), k, c, v)
<1>1. /\ k.revision \in Nat /\ k.text \in [Cue -> Text \cup {None}]
      /\ k.done \in 0 .. Blocks /\ k.conf \in Conf
  BY DEF Task
<1>2. PICK x : x = [k.text EXCEPT ![c] = v]
  OBVIOUS
<1>3. x \in [Cue -> Text \cup {None}] /\ x[c] = v /\ \A i \in Cue : i # c => x[i] = k.text[i]
  BY <1>1, <1>2
<1>4. PICK n : n = Correction(k, c, v)
  OBVIOUS
<1>5. n = [revision |-> k.revision + 1, done |-> k.done, text |-> x, conf |-> k.conf]
  BY <1>2, <1>4 DEF Task, Correction
<1>6. n \in Task
  BY <1>1, <1>3, <1>5 DEF Task
<1>7. n.revision = k.revision + 1 /\ n.done = k.done /\ n.text = x /\ n.conf = k.conf
  BY <1>5
<1>8. Valid(n)
  <2>1. \A i \in Cue : n.text[i] # None <=> k.text[i] # None
    BY <1>3, <1>7, Nothing DEF Valid
  <2> QED BY <2>1, <1>7 DEF Valid
<1>9. Alike(n, k)
  BY <1>7 DEF Alike
<1>10. n.text[c] = v /\ \A i \in Cue : i # c => n.text[i] = k.text[i]
  BY <1>3, <1>7
<1> QED BY <1>4, <1>6, <1>7, <1>8, <1>9, <1>10, Zenon DEF Corrects

\* A write of a task, seen from the variables it changes.
LEMMA Written ==
    ASSUME TypeOK, NEW t \in Tab, NEW k \in Task, Valid(k), k.revision <= disk.revision + 1,
           NEW n \in {0, 1}, Write(t, k, n)
    PROVE  /\ disk' \in [revision : Nat, task : Task \cup {None}]
           /\ disk'.revision = disk.revision + 1 /\ disk'.task = k /\ k # None
           /\ disk'.revision \in Nat /\ disk'.task \in Task \cup {None}
           /\ disk'.task.revision <= disk'.revision
           /\ others' \in [Tab -> Nat] /\ changes' \in Nat
<1>1. disk.revision \in Nat /\ others \in [Tab -> Nat] /\ changes \in Nat
  BY DEF TypeOK
<1>2. k # None /\ k.revision \in Nat
  BY Nothing DEF Task
<1>3. /\ changes' = changes + n
      /\ disk' = [revision |-> disk.revision + 1, task |-> k]
      /\ others' = [u \in Tab |-> IF u = t \/ k = None THEN others[u] ELSE k.revision]
  BY DEF Write
<1>4. others' \in [Tab -> Nat]
  BY <1>1, <1>2, <1>3
<1>5. changes' \in Nat
  BY <1>1, <1>3
<1> QED BY <1>1, <1>2, <1>3, <1>4, <1>5

\* What a correction needs and does.
LEMMA CommitWrites ==
    ASSUME TypeOK, QueueFits, NEW t \in Tab, CommitDraft(t),
           NEW k, k = [disk.task EXCEPT !.text[draft[t].cue] = draft[t].value, !.revision = @ + 1]
    PROVE  /\ disk.task # None /\ disk.task \in Task /\ Valid(disk.task)
           /\ draft[t] \in Draft /\ draft[t].cue \in Cue /\ draft[t].cue <= disk.task.done
           /\ k \in Task /\ Valid(k) /\ k.revision = disk.task.revision + 1 /\ Alike(k, disk.task)
           /\ k.text[draft[t].cue] = draft[t].value
           /\ \A i \in Cue : i # draft[t].cue => k.text[i] = disk.task.text[i]
           /\ Write(t, k, 1)
           /\ disk' \in [revision : Nat, task : Task \cup {None}]
           /\ disk'.revision = disk.revision + 1 /\ disk'.task = k /\ k # None
           /\ disk'.revision \in Nat /\ disk'.task \in Task \cup {None} /\ Valid(disk'.task)
           /\ disk'.task.revision <= disk'.revision
           /\ others' \in [Tab -> Nat] /\ changes' \in Nat
<1>1. draft[t] \in Draft
  <2>1. Granted(t, "editor", FALSE)
    BY DEF CommitDraft
  <2> QED BY <2>1, HeadOf
<1>2. MayCorrect(draft[t]) /\ Write(t, k, 1)
  BY Zenon DEF CommitDraft
<1>3. disk.task # None /\ draft[t].cue \in Cue /\ draft[t].value \in Text /\ draft[t].cue <= disk.task.done
  BY <1>1, <1>2 DEF MayCorrect, Draft
<1>4. /\ disk.task \in Task /\ Valid(disk.task) /\ disk.task.revision \in Nat
      /\ disk.revision \in Nat /\ disk.task.revision <= disk.revision
  BY <1>3, Typed DEF TypeOK
<1>5. k = Correction(disk.task, draft[t].cue, draft[t].value)
  BY DEF Correction
<1>6. PICK d \in Task, c \in Cue, v \in Text : d = disk.task /\ c = draft[t].cue /\ v = draft[t].value
  BY <1>3, <1>4
<1>7. /\ k \in Task /\ Valid(k) /\ k.revision = disk.task.revision + 1 /\ Alike(k, disk.task)
      /\ k.text[c] = v /\ \A i \in Cue : i # c => k.text[i] = disk.task.text[i]
  <2>1. Valid(d) /\ c <= d.done /\ k = Correction(d, c, v)
    BY <1>3, <1>4, <1>5, <1>6
  <2>2. Corrects(Correction(d, c, v), d, c, v)
    BY <2>1, Corrected
  <2> QED BY <2>1, <2>2, <1>6, Zenon DEF Corrects
<1>8. k.revision <= disk.revision + 1
  BY <1>4, <1>7
<1>9. /\ disk' \in [revision : Nat, task : Task \cup {None}]
      /\ disk'.revision = disk.revision + 1 /\ disk'.task = k /\ k # None
      /\ disk'.revision \in Nat /\ disk'.task \in Task \cup {None}
      /\ disk'.task.revision <= disk'.revision
      /\ others' \in [Tab -> Nat] /\ changes' \in Nat
  BY <1>2, <1>7, <1>8, Written
<1> QED BY <1>1, <1>2, <1>3, <1>4, <1>6, <1>7, <1>9

LEMMA CommitDraftFits ==
    ASSUME Fitting, NEW t \in Tab, CommitDraft(t)
    PROVE  Fitting'
<1>1. TypeOK /\ QueueFits /\ RunFits /\ NeverAhead
  BY DEF Fitting
<1>2. PICK k : k = [disk.task EXCEPT !.text[draft[t].cue] = draft[t].value, !.revision = @ + 1]
  OBVIOUS
<1>3. /\ disk' \in [revision : Nat, task : Task \cup {None}]
      /\ disk'.revision = disk.revision + 1 /\ disk'.task # None
      /\ disk'.revision \in Nat /\ disk'.task \in Task \cup {None} /\ Valid(disk'.task)
      /\ disk'.task.revision <= disk'.revision
      /\ others' \in [Tab -> Nat] /\ changes' \in Nat
  BY <1>1, <1>2, CommitWrites
<1>4. /\ Granted(t, "editor", FALSE)
      /\ ApplySince(t, disk', seen[t], main[t] \in Working, Unsaved(t))
      /\ draft' = [draft EXCEPT ![t] = None]
      /\ queue' = Tail(queue)
      /\ dirty' = dirty /\ holder' = holder /\ main' = main /\ Calm
  BY Zenon DEF CommitDraft, Apply
<1>5. /\ mem' \in [Tab -> Task \cup {None}] /\ seen' \in [Tab -> Nat]
      /\ hand' \in [Tab -> Task \cup {None}]
      /\ \A u \in Tab : u # t => seen'[u] = seen[u]
      /\ seen'[t] = Since(seen[t], disk')
      /\ \A u \in Tab : /\ hand'[u] # None => main[u] \in Working
                        /\ main[u] \in Running => Held(u)' # None
                        /\ main[u] \in {"saving", "sent"} => Held(u)'.done < Blocks
  BY <1>1, <1>3, <1>4, TypedTabs, Heeds
<1>6. draft' \in [Tab -> Draft \cup {None}] /\ \A u \in Tab : u # t => draft'[u] = draft[u]
  BY <1>1, <1>4 DEF TypeOK
<1>7. queue' \in Seq(Request) /\ QueueFits'
  <2>1. queue # <<>> /\ Head(queue).tab = t /\ Head(queue).by = "editor"
    BY <1>4 DEF Granted
  <2> QED BY <2>1, <1>1, <1>4, <1>6, HeadFits
<1>8. TypeOK'
  BY <1>1, <1>3, <1>4, <1>5, <1>6, <1>7 DEF TypeOK, Calm
<1>9. RunFits'
  BY <1>1, <1>3, <1>4, <1>5 DEF RunFits, Calm
<1>10. NeverAhead'
  <2>1. disk.revision <= disk'.revision /\ seen[t] \in Nat
    BY <1>1, <1>3, Typed, TypedTabs
  <2>2. cleared' = cleared /\ missed' = missed
    BY <1>4 DEF Calm
  <2> QED BY <2>1, <2>2, <1>1, <1>3, <1>5, StaysBehind
<1> QED BY <1>7, <1>8, <1>9, <1>10 DEF Fitting

LEMMA RejectDraftFits ==
    ASSUME Fitting, NEW t \in Tab, RejectDraft(t)
    PROVE  Fitting'
<1>1. TypeOK /\ QueueFits /\ RunFits /\ NeverAhead
  BY DEF Fitting
<1>2. /\ Granted(t, "editor", FALSE)
      /\ ApplySince(t, disk, seen[t], main[t] \in Working, Unsaved(t))
      /\ draft' = [draft EXCEPT ![t].stage = "failed"]
      /\ queue' = Tail(queue)
      /\ dirty' = dirty /\ holder' = holder /\ main' = main
  BY Zenon DEF RejectDraft, Apply
<1>3. /\ clearing' = clearing /\ cleared' = cleared /\ missed' = missed
      /\ clears' = clears /\ imports' = imports /\ Unwritten
      /\ faults' \in 0 .. MaxFaults
  <2>1. Refused(~MayCorrect(draft[t]))
    BY DEF RejectDraft
  <2> QED BY <2>1, <1>1, RefusedOne
<1>4. disk' = disk /\ others' = others /\ changes' = changes
  BY <1>3 DEF Unwritten
<1>5. /\ mem' \in [Tab -> Task \cup {None}] /\ seen' \in [Tab -> Nat]
      /\ hand' \in [Tab -> Task \cup {None}]
      /\ \A u \in Tab : u # t => seen'[u] = seen[u]
      /\ seen'[t] = Since(seen[t], disk)
      /\ \A u \in Tab : /\ hand'[u] # None => main[u] \in Working
                        /\ main[u] \in Running => Held(u)' # None
                        /\ main[u] \in {"saving", "sent"} => Held(u)'.done < Blocks
  BY <1>1, <1>2, Typed, TypedTabs, Heeds
<1>6. draft[t] \in Draft /\ queue # <<>> /\ Head(queue).tab = t /\ Head(queue).by = "editor"
  BY <1>1, <1>2, HeadOf
<1>7. draft' \in [Tab -> Draft \cup {None}] /\ \A u \in Tab : u # t => draft'[u] = draft[u]
  BY <1>1, <1>2, <1>6, Stages DEF Stage
<1>8. queue' \in Seq(Request) /\ QueueFits'
  BY <1>1, <1>2, <1>6, <1>7, HeadFits
<1>9. TypeOK'
  BY <1>1, <1>2, <1>3, <1>4, <1>5, <1>7, <1>8 DEF TypeOK
<1>10. RunFits'
  BY <1>1, <1>2, <1>3, <1>4, <1>5 DEF RunFits
<1>11. NeverAhead'
  <2>1. disk'.revision \in Nat /\ disk.revision <= disk'.revision /\ seen[t] \in Nat
    BY <1>1, <1>4, Typed, TypedTabs
  <2>2. seen'[t] = Since(seen[t], disk')
    BY <1>4, <1>5
  <2> QED BY <2>1, <2>2, <1>1, <1>3, <1>5, StaysBehind
<1> QED BY <1>8, <1>9, <1>10, <1>11 DEF Fitting

-----------------------------------------------------------------------------
(* The other writers.                                                      *)

LEMMA StartFixFits ==
    ASSUME Fitting, NEW t \in Tab, StartFix(t)
    PROVE  Fitting'
<1>1. TypeOK /\ QueueFits /\ RunFits /\ NeverAhead
  BY DEF Fitting
<1>2. /\ main[t] = "off" /\ mem[t] \in Task /\ mem[t] # None /\ holder = None /\ holder' = t
      /\ seen' = seen /\ dirty' = dirty /\ draft' = draft /\ Unwritten /\ Calm
  BY <1>1, Nothing DEF StartFix, TypeOK
<1>3. /\ mem' \in [Tab -> Task \cup {None}] /\ hand' \in [Tab -> Task \cup {None}]
      /\ main' \in [Tab -> Working \cup Fixing \cup {"off"}]
      /\ \A u \in Tab : u # t => mem'[u] = mem[u] /\ hand'[u] = hand[u] /\ main'[u] = main[u]
      /\ (hand[t] = None <=> hand'[t] = None)
      /\ main'[t] \in {"fixRetry", "unlock", "fix"}
      /\ queue' \in Seq(Request) /\ QueueFits'
  <2>1. main[t] \notin Saving \cup Asking /\ "fixRetry" \in Saving
    BY <1>2 DEF Saving, Asking
  <2>2. CASE Unsaved(t)
    <3>1. SaveCopy(t, mem[t], "fixRetry", "unlock")
      BY <2>2 DEF StartFix
    <3> QED BY <3>1, <2>1, <1>1, <1>2, CopySaved
  <2>3. CASE ~Unsaved(t)
    <3>1. /\ main' = [main EXCEPT ![t] = "fix"] /\ mem' = mem /\ hand' = hand
          /\ queue' = Append(queue, Plain(t, "main"))
      BY <2>3 DEF StartFix
    <3>2. /\ main' \in [Tab -> Working \cup Fixing \cup {"off"}] /\ main'[t] = "fix"
          /\ \A u \in Tab : u # t => main'[u] = main[u]
      BY <3>1, <1>1 DEF TypeOK, Fixing
    <3>3. PICK e \in Request : e = Plain(t, "main") /\ e.tab = t /\ e.by = "main" /\ e.copy = None
      BY Requests
    <3>4. queue' \in Seq(Request) /\ QueueFits'
      BY <3>1, <3>2, <3>3, <2>1, <1>1, <1>2, MainFits DEF Asking
    <3> QED BY <3>1, <3>2, <3>4, <1>1 DEF TypeOK
  <2> QED BY <2>2, <2>3
<1>4. TypeOK'
  BY <1>1, <1>2, <1>3, Nothing DEF TypeOK, Unwritten, Calm
<1>5. RunFits'
  <2>1. hand[t] = None
    BY <1>1, <1>2 DEF RunFits, Working
  <2> QED BY <2>1, <1>1, <1>2, <1>3, StillHeld DEF RunFits, Running, Unwritten, Calm
<1>6. NeverAhead'
  BY <1>1, <1>2 DEF NeverAhead, Unwritten, Calm
<1> QED BY <1>3, <1>4, <1>5, <1>6 DEF Fitting

LEMMA StartDeleteFits ==
    ASSUME Fitting, NEW t \in Tab, StartDelete(t)
    PROVE  Fitting'
<1>1. TypeOK /\ QueueFits /\ RunFits /\ NeverAhead
  BY DEF Fitting
<1>2. /\ main[t] = "off" /\ holder = None /\ holder' = t
      /\ main' = [main EXCEPT ![t] = "delete"] /\ queue' = Append(queue, Plain(t, "main"))
      /\ mem' = mem /\ hand' = hand /\ seen' = seen /\ dirty' = dirty /\ draft' = draft
      /\ Unwritten /\ Calm
  BY <1>1, Nothing DEF StartDelete, TypeOK
<1>3. /\ main' \in [Tab -> Working \cup Fixing \cup {"off"}] /\ main'[t] = "delete"
      /\ \A u \in Tab : u # t => main'[u] = main[u]
  BY <1>1, <1>2 DEF TypeOK, Fixing
<1>4. PICK e \in Request : e = Plain(t, "main") /\ e.tab = t /\ e.by = "main" /\ e.copy = None
  BY Requests
<1>5. queue' \in Seq(Request) /\ QueueFits'
  BY <1>1, <1>2, <1>3, <1>4, MainFits DEF Saving, Asking
<1>6. TypeOK'
  BY <1>1, <1>2, <1>3, <1>5, Nothing DEF TypeOK, Unwritten, Calm
<1>7. RunFits'
  <2>1. hand[t] = None
    BY <1>1, <1>2 DEF RunFits, Working
  <2> QED BY <2>1, <1>1, <1>2, <1>3, StillHeld DEF RunFits, Running, Unwritten, Calm
<1>8. NeverAhead'
  BY <1>1, <1>2 DEF NeverAhead, Unwritten, Calm
<1> QED BY <1>5, <1>6, <1>7, <1>8 DEF Fitting

\* The lock is let go.
LEMMA UnlockFits ==
    ASSUME Fitting, NEW t \in Tab, Unlock(t)
    PROVE  Fitting'
<1>1. TypeOK /\ QueueFits /\ RunFits /\ NeverAhead
  BY DEF Fitting
<1>2. /\ main[t] = "unlock" /\ holder' = None /\ main' = [main EXCEPT ![t] = "off"]
      /\ mem' = mem /\ hand' = hand /\ seen' = seen /\ dirty' = dirty /\ queue' = queue /\ draft' = draft
      /\ Unwritten /\ Calm
  BY DEF Unlock
<1>3. /\ main' \in [Tab -> Working \cup Fixing \cup {"off"}] /\ main'[t] = "off"
      /\ \A u \in Tab : u # t => main'[u] = main[u]
  BY <1>1, <1>2 DEF TypeOK
<1>4. queue' \in Seq(Request) /\ QueueFits'
  BY <1>1, <1>2, <1>3, MainFits DEF Saving, Asking
<1>5. TypeOK'
  BY <1>1, <1>2, <1>3, <1>4, Nothing DEF TypeOK, Unwritten, Calm
<1>6. RunFits'
  <2>1. hand[t] = None
    BY <1>1, <1>2 DEF RunFits, Working
  <2> QED BY <2>1, <1>1, <1>2, <1>3, StillHeld DEF RunFits, Running, Unwritten, Calm
<1>7. NeverAhead'
  BY <1>1, <1>2 DEF NeverAhead, Unwritten, Calm
<1> QED BY <1>4, <1>5, <1>6, <1>7 DEF Fitting

\* The tab at the head of the queue lets its lock go next.
LEMMA FollowsOut ==
    ASSUME TypeOK, QueueFits, NEW t \in Tab, Granted(t, "main", FALSE), Follow(t, "unlock", <<>>),
           draft' = draft
    PROVE  /\ main[t] \in Asking /\ queue' = Tail(queue)
           /\ main' \in [Tab -> Working \cup Fixing \cup {"off"}] /\ main'[t] = "unlock"
           /\ \A u \in Tab : u # t => main'[u] = main[u]
           /\ queue' \in Seq(Request) /\ QueueFits'
<1>1. /\ queue \in Seq(Request) /\ queue # <<>> /\ Head(queue).tab = t /\ Head(queue).by = "main"
      /\ main[t] \in Asking
  BY HeadOf
<1>2. main' = [main EXCEPT ![t] = "unlock"] /\ queue' = Tail(queue) \o <<>>
  BY DEF Follow
<1>3. /\ main' \in [Tab -> Working \cup Fixing \cup {"off"}] /\ main'[t] = "unlock"
      /\ \A u \in Tab : u # t => main'[u] = main[u]
  BY <1>2 DEF TypeOK, Fixing
<1>4. queue' = Tail(queue)
  BY <1>1, <1>2, AsksNothing, Zenon
<1>5. queue' \in Seq(Request) /\ QueueFits'
  BY <1>1, <1>3, <1>4, HeadFits
<1> QED BY <1>1, <1>3, <1>4, <1>5

\* New settings for the stored task.
Adjusted(k, f) == [k EXCEPT !.conf = f, !.revision = @ + 1]

LEMMA Adjusts ==
    ASSUME NEW k \in Task, Valid(k), NEW f \in Conf
    PROVE  /\ Adjusted(k, f) \in Task /\ Valid(Adjusted(k, f))
           /\ Adjusted(k, f).revision = k.revision + 1 /\ Adjusted(k, f).conf = f
           /\ Adjusted(k, f).done = k.done /\ Adjusted(k, f).text = k.text
<1>1. PICK n : n = Adjusted(k, f)
  OBVIOUS
<1>2. n = [revision |-> k.revision + 1, done |-> k.done, text |-> k.text, conf |-> f]
  BY <1>1 DEF Task, Adjusted
<1>3. /\ k.revision \in Nat /\ k.text \in [Cue -> Text \cup {None}] /\ k.done \in 0 .. Blocks
  BY DEF Task
<1>4. n \in Task
  BY <1>2, <1>3 DEF Task
<1>5. n.revision = k.revision + 1 /\ n.conf = f /\ n.done = k.done /\ n.text = k.text
  BY <1>2
<1>6. Valid(n)
  BY <1>5 DEF Valid
<1> QED BY <1>1, <1>4, <1>5, <1>6

\* What a change of the settings needs and does.
LEMMA FixWrites ==
    ASSUME TypeOK, QueueFits, NEW t \in Tab, Fix(t)
    PROVE  \E k \in Task :
              /\ disk.task # None /\ disk.task \in Task /\ Valid(disk.task)
              /\ Valid(k) /\ k.revision = disk.task.revision + 1 /\ k.done = disk.task.done
              /\ k.text = disk.task.text
              /\ Write(t, k, 1)
              /\ disk' \in [revision : Nat, task : Task \cup {None}]
              /\ disk'.revision = disk.revision + 1 /\ disk'.task = k /\ k # None
              /\ disk'.revision \in Nat /\ disk'.task \in Task \cup {None} /\ Valid(disk'.task)
              /\ disk'.task.revision <= disk'.revision
              /\ others' \in [Tab -> Nat] /\ changes' \in Nat
<1>1. disk.task # None
  BY DEF Fix
<1>2. PICK f \in Conf : Write(t, [disk.task EXCEPT !.conf = f, !.revision = @ + 1], 1)
  BY DEF Fix
<1>3. /\ disk.task \in Task /\ Valid(disk.task) /\ disk.task.revision \in Nat
      /\ disk.revision \in Nat /\ disk.task.revision <= disk.revision
  BY <1>1, Typed DEF TypeOK
<1>4. PICK k : k = Adjusted(disk.task, f)
  OBVIOUS
<1>5. Write(t, k, 1)
  BY <1>2, <1>4 DEF Adjusted
<1>6. /\ k \in Task /\ Valid(k) /\ k.revision = disk.task.revision + 1
      /\ k.done = disk.task.done /\ k.text = disk.task.text
  <2>1. /\ Adjusted(disk.task, f) \in Task /\ Valid(Adjusted(disk.task, f))
        /\ Adjusted(disk.task, f).revision = disk.task.revision + 1
        /\ Adjusted(disk.task, f).done = disk.task.done
        /\ Adjusted(disk.task, f).text = disk.task.text
    BY <1>3, Adjusts, Zenon
  <2> QED BY <2>1, <1>4
<1>7. k.revision <= disk.revision + 1
  BY <1>3, <1>6
<1>8. /\ disk' \in [revision : Nat, task : Task \cup {None}]
      /\ disk'.revision = disk.revision + 1 /\ disk'.task = k /\ k # None
      /\ disk'.revision \in Nat /\ disk'.task \in Task \cup {None}
      /\ disk'.task.revision <= disk'.revision
      /\ others' \in [Tab -> Nat] /\ changes' \in Nat
  BY <1>5, <1>6, <1>7, Written
<1> QED BY <1>1, <1>3, <1>5, <1>6, <1>8

LEMMA FixFits ==
    ASSUME Fitting, NEW t \in Tab, Fix(t)
    PROVE  Fitting'
<1>1. TypeOK /\ QueueFits /\ RunFits /\ NeverAhead
  BY DEF Fitting
<1>2. /\ disk' \in [revision : Nat, task : Task \cup {None}]
      /\ disk'.revision = disk.revision + 1 /\ disk'.task # None
      /\ disk'.revision \in Nat /\ disk'.task \in Task \cup {None} /\ Valid(disk'.task)
      /\ disk'.task.revision <= disk'.revision
      /\ others' \in [Tab -> Nat] /\ changes' \in Nat
  BY <1>1, FixWrites
<1>3. /\ Granted(t, "main", FALSE) /\ main[t] = "fix"
      /\ ApplySince(t, disk', seen[t], FALSE, Unsaved(t)) /\ Follow(t, "unlock", <<>>)
      /\ dirty' = dirty /\ holder' = holder /\ draft' = draft /\ Calm
  BY Zenon DEF Fix, Apply
<1>4. /\ mem' \in [Tab -> Task \cup {None}] /\ seen' \in [Tab -> Nat]
      /\ hand' \in [Tab -> Task \cup {None}] /\ hand'[t] = hand[t]
      /\ \A u \in Tab : u # t => mem'[u] = mem[u] /\ seen'[u] = seen[u] /\ hand'[u] = hand[u]
      /\ seen'[t] = Since(seen[t], disk')
  <2>1. PICK unsaved : unsaved = Unsaved(t)
    OBVIOUS
  <2>2. ApplySince(t, disk', seen[t], FALSE, unsaved)
    BY <2>1, <1>3
  <2> QED BY <2>2, <1>1, <1>2, TypedTabs, Applies
<1>5. /\ main' \in [Tab -> Working \cup Fixing \cup {"off"}] /\ main'[t] = "unlock"
      /\ \A u \in Tab : u # t => main'[u] = main[u]
      /\ queue' \in Seq(Request) /\ QueueFits'
  BY <1>1, <1>3, FollowsOut
<1>6. TypeOK'
  BY <1>1, <1>2, <1>3, <1>4, <1>5 DEF TypeOK, Calm
<1>7. RunFits'
  <2>1. hand[t] = None /\ RunFits
    BY <1>1, <1>3 DEF RunFits, Working
  <2>2. clears' = clears
    BY <1>3 DEF Calm
  <2>3. hand'[t] = None /\ main'[t] \notin Running
    BY <2>1, <1>4, <1>5 DEF Running
  <2>4. ASSUME NEW u \in Tab, u # t
        PROVE  hand'[u] = hand[u] /\ main'[u] = main[u] /\ Held(u)' = Held(u)
    BY <2>4, <1>4, <1>5, StillHeld
  <2> QED BY <2>1, <2>2, <2>3, <2>4, <1>2 DEF RunFits, Running
<1>8. NeverAhead'
  <2>1. disk.revision <= disk'.revision /\ seen[t] \in Nat
    BY <1>1, <1>2, Typed, TypedTabs
  <2>2. cleared' = cleared /\ missed' = missed
    BY <1>3 DEF Calm
  <2> QED BY <2>1, <2>2, <1>1, <1>2, <1>4, StaysBehind
<1> QED BY <1>5, <1>6, <1>7, <1>8 DEF Fitting

LEMMA DeleteFits ==
    ASSUME Fitting, NEW t \in Tab, Delete(t)
    PROVE  Fitting'
<1>1. TypeOK /\ QueueFits /\ RunFits /\ NeverAhead
  BY DEF Fitting
<1>2. /\ Granted(t, "main", FALSE) /\ main[t] = "delete" /\ Write(t, None, 0)
      /\ mem' = [mem EXCEPT ![t] = None]
      /\ seen' = [seen EXCEPT ![t] = Since(@, disk')]
      /\ dirty' = [dirty EXCEPT ![t] = Clean]
      /\ Follow(t, "unlock", <<>>)
      /\ hand' = hand /\ holder' = holder /\ draft' = draft /\ Calm
  BY DEF Delete
<1>3. /\ disk' = [revision |-> disk.revision + 1, task |-> None]
      /\ disk'.revision = disk.revision + 1 /\ disk'.task = None
      /\ others' = others /\ changes' = changes
  <2>1. others \in [Tab -> Nat] /\ changes \in Nat
    BY <1>1 DEF TypeOK
  <2>2. /\ changes' = changes + 0 /\ disk' = [revision |-> disk.revision + 1, task |-> None]
        /\ others' = [u \in Tab |-> IF u = t \/ None = None THEN others[u] ELSE None.revision]
    BY <1>2 DEF Write
  <2> QED BY <2>1, <2>2
<1>4. /\ mem' \in [Tab -> Task \cup {None}] /\ \A u \in Tab : u # t => mem'[u] = mem[u]
      /\ dirty' \in [Tab -> Nat \cup {Clean}]
  BY <1>1, <1>2 DEF TypeOK
<1>5. /\ seen' \in [Tab -> Nat] /\ seen'[t] = Since(seen[t], disk')
      /\ \A u \in Tab : u # t => seen'[u] = seen[u]
  <2>1. seen \in [Tab -> Nat] /\ disk.revision \in Nat
    BY <1>1 DEF TypeOK
  <2>2. Since(seen[t], disk') \in Nat
    BY <2>1, <1>3 DEF Since
  <2> QED BY <2>1, <2>2, <1>2
<1>6. /\ main' \in [Tab -> Working \cup Fixing \cup {"off"}] /\ main'[t] = "unlock"
      /\ \A u \in Tab : u # t => main'[u] = main[u]
      /\ queue' \in Seq(Request) /\ QueueFits'
  BY <1>1, <1>2, FollowsOut
<1>7. TypeOK'
  BY <1>1, <1>2, <1>3, <1>4, <1>5, <1>6, Typed, SMTT(20) DEF TypeOK, Calm
<1>8. RunFits'
  <2>1. \A u \in Tab : u # t => main[u] = "off"
    BY <1>1, <1>2 DEF TypeOK
  <2>2. \A u \in Tab : main[u] \notin Working /\ main'[u] \notin Running
    BY <2>1, <1>2, <1>6 DEF Working, Running
  <2> QED BY <2>2, <1>1, <1>2 DEF RunFits, Running
<1>9. NeverAhead'
  <2>1. disk'.revision \in Nat /\ disk.revision <= disk'.revision /\ seen[t] \in Nat
    BY <1>1, <1>3, Typed, TypedTabs
  <2>2. cleared' = cleared /\ missed' = missed
    BY <1>2 DEF Calm
  <2> QED BY <2>1, <2>2, <1>1, <1>5, StaysBehind
<1> QED BY <1>6, <1>7, <1>8, <1>9 DEF Fitting

LEMMA ChangeFailsFits ==
    ASSUME Fitting, NEW t \in Tab, ChangeFails(t)
    PROVE  Fitting'
<1>1. TypeOK /\ QueueFits /\ RunFits /\ NeverAhead
  BY DEF Fitting
<1>2. /\ Granted(t, "main", FALSE) /\ Follow(t, "unlock", <<>>)
      /\ mem' = mem /\ hand' = hand /\ seen' = seen /\ dirty' = dirty /\ holder' = holder /\ draft' = draft
  BY DEF ChangeFails
<1>3. /\ clearing' = clearing /\ cleared' = cleared /\ missed' = missed
      /\ clears' = clears /\ imports' = imports /\ Unwritten
      /\ faults' \in 0 .. MaxFaults
  <2>1. Refused(main[t] = "fix" /\ disk.task = None)
    BY DEF ChangeFails
  <2> QED BY <2>1, <1>1, RefusedOne
<1>4. /\ main' \in [Tab -> Working \cup Fixing \cup {"off"}] /\ main'[t] = "unlock"
      /\ main[t] \in Asking
      /\ \A u \in Tab : u # t => main'[u] = main[u]
      /\ queue' \in Seq(Request) /\ QueueFits'
  BY <1>1, <1>2, FollowsOut
<1>5. TypeOK'
  BY <1>1, <1>2, <1>3, <1>4 DEF TypeOK, Unwritten, Asking
<1>6. RunFits'
  <2>1. main[t] \notin Working
    BY <1>4 DEF Asking, Working
  <2> QED BY <2>1, <1>1, <1>2, <1>3, <1>4, StillHeld DEF RunFits, Running, Unwritten
<1>7. NeverAhead'
  BY <1>1, <1>2, <1>3 DEF NeverAhead, Unwritten
<1> QED BY <1>4, <1>5, <1>6, <1>7 DEF Fitting

\* A step that leaves the requests and their callers alone.
LEMMA OthersFit ==
    ASSUME TypeOK, QueueFits, queue' = queue, main' = main, draft' = draft
    PROVE  queue' \in Seq(Request) /\ QueueFits'
<1>1. queue \in Seq(Request)
  BY DEF TypeOK
<1>2. \A r \in Waiting(queue) : Fits(r)'
  BY DEF QueueFits, Fits
<1> QED BY <1>1, <1>2 DEF QueueFits

LEMMA ImportWrites ==
    ASSUME TypeOK, NEW t \in Tab, Import(t)
    PROVE  /\ disk' \in [revision : Nat, task : Task \cup {None}]
           /\ disk'.revision = disk.revision + 1 /\ disk'.task # None
           /\ disk'.revision \in Nat /\ disk'.task \in Task \cup {None} /\ Valid(disk'.task)
           /\ disk'.task.revision <= disk'.revision
           /\ others' \in [Tab -> Nat] /\ changes' \in Nat
<1>1. PICK d \in 0 .. Blocks, f \in Conf : \E x \in [1 .. d -> Text] :
         Write(t, [revision |-> disk.revision + 1, done |-> d, conf |-> f,
                   text |-> [c \in Cue |-> IF c <= d THEN x[c] ELSE None]], 0)
  BY DEF Import
<1>2. PICK x \in [1 .. d -> Text] :
         Write(t, [revision |-> disk.revision + 1, done |-> d, conf |-> f,
                   text |-> [c \in Cue |-> IF c <= d THEN x[c] ELSE None]], 0)
  BY <1>1
<1>3. PICK y : y = [c \in Cue |-> IF c <= d THEN x[c] ELSE None]
  OBVIOUS
<1>4. \A c \in Cue : (c <= d => c \in 1 .. d) /\ c \in Nat
  BY WorkspaceAssumption DEF Cue
<1>5. y \in [Cue -> Text \cup {None}] /\ \A c \in Cue : y[c] # None <=> c <= d
  <2>1. ASSUME NEW c \in Cue PROVE y[c] \in Text \cup {None} /\ (y[c] # None <=> c <= d)
    <3>1. CASE c <= d
      <4>1. x[c] \in Text
        BY <3>1, <1>4
      <4> QED BY <4>1, <3>1, <1>3, Nothing
    <3>2. CASE ~(c <= d)
      BY <3>2, <1>3
    <3> QED BY <3>1, <3>2
  <2>2. y = [c \in Cue |-> y[c]]
    BY <1>3
  <2> QED BY <2>1, <2>2
<1>6. disk.revision \in Nat
  BY Typed
<1>7. PICK k : k = [revision |-> disk.revision + 1, done |-> d, conf |-> f, text |-> y]
  OBVIOUS
<1>8. Write(t, k, 0)
  BY <1>2, <1>3, <1>7
<1>9. k \in Task /\ Valid(k) /\ k.revision = disk.revision + 1
  <2>1. k \in Task /\ k.revision = disk.revision + 1 /\ k.text = y /\ k.done = d
    BY <1>5, <1>6, <1>7 DEF Task
  <2> QED BY <2>1, <1>5 DEF Valid
<1>10. k.revision <= disk.revision + 1
  BY <1>6, <1>9
<1> QED BY <1>8, <1>9, <1>10, Written

LEMMA ImportFits ==
    ASSUME Fitting, NEW t \in Tab, Import(t)
    PROVE  Fitting'
<1>1. TypeOK /\ QueueFits /\ RunFits /\ NeverAhead
  BY DEF Fitting
<1>2. /\ disk' \in [revision : Nat, task : Task \cup {None}]
      /\ disk'.revision = disk.revision + 1 /\ disk'.task # None
      /\ disk'.revision \in Nat /\ disk'.task \in Task \cup {None} /\ Valid(disk'.task)
      /\ disk'.task.revision <= disk'.revision
      /\ others' \in [Tab -> Nat] /\ changes' \in Nat
  BY <1>1, ImportWrites
<1>3. /\ disk.task = None /\ imports < MaxImports /\ imports' = imports + 1
      /\ ApplySince(t, disk', seen[t], main[t] \in Working, Unsaved(t))
      /\ dirty' = dirty /\ holder' = holder /\ main' = main /\ queue' = queue /\ draft' = draft
      /\ clearing' = clearing /\ cleared' = cleared /\ missed' = missed /\ clears' = clears /\ faults' = faults
  BY Zenon DEF Import, Apply
<1>4. /\ mem' \in [Tab -> Task \cup {None}] /\ seen' \in [Tab -> Nat]
      /\ hand' \in [Tab -> Task \cup {None}]
      /\ \A u \in Tab : u # t => seen'[u] = seen[u]
      /\ seen'[t] = Since(seen[t], disk')
      /\ \A u \in Tab : /\ hand'[u] # None => main[u] \in Working
                        /\ main[u] \in Running => Held(u)' # None
                        /\ main[u] \in {"saving", "sent"} => Held(u)'.done < Blocks
  BY <1>1, <1>2, <1>3, TypedTabs, Heeds
<1>5. queue' \in Seq(Request) /\ QueueFits'
  BY <1>1, <1>3, OthersFit
<1>6. imports' \in 0 .. MaxImports
  <2>1. imports \in 0 .. MaxImports /\ MaxImports \in Nat
    BY <1>1, WorkspaceAssumption DEF TypeOK
  <2> QED BY <2>1, <1>3
<1>7. TypeOK'
  BY <1>1, <1>2, <1>3, <1>4, <1>5, <1>6 DEF TypeOK
<1>8. RunFits'
  BY <1>1, <1>2, <1>3, <1>4 DEF RunFits
<1>9. NeverAhead'
  <2>1. disk.revision <= disk'.revision /\ seen[t] \in Nat
    BY <1>1, <1>2, Typed, TypedTabs
  <2> QED BY <2>1, <1>1, <1>2, <1>3, <1>4, StaysBehind
<1> QED BY <1>5, <1>7, <1>8, <1>9 DEF Fitting

LEMMA WriteOtherFits ==
    ASSUME Fitting, NEW t \in Tab, WriteOther(t)
    PROVE  Fitting'
<1>1. TypeOK /\ QueueFits /\ RunFits /\ NeverAhead
  BY DEF Fitting
<1>2. /\ disk' = [disk EXCEPT !.revision = @ + 1]
      /\ ApplySince(t, disk', seen[t], main[t] \in Working, Unsaved(t))
      /\ dirty' = dirty /\ holder' = holder /\ main' = main /\ queue' = queue /\ draft' = draft
      /\ others' = others /\ changes' = changes /\ Calm
  BY Zenon DEF WriteOther, Apply
<1>3. /\ disk' \in [revision : Nat, task : Task \cup {None}]
      /\ disk'.revision = disk.revision + 1 /\ disk'.task = disk.task
      /\ disk'.revision \in Nat /\ disk'.task \in Task \cup {None}
      /\ disk'.task # None => Valid(disk'.task) /\ disk'.task.revision <= disk'.revision
  <2>1. /\ disk' \in [revision : Nat, task : Task \cup {None}]
        /\ disk'.revision = disk.revision + 1 /\ disk'.task = disk.task
        /\ disk'.revision \in Nat /\ disk'.task \in Task \cup {None} /\ disk.revision \in Nat
    <3>1. /\ disk \in [revision : Nat, task : Task \cup {None}]
          /\ disk.revision \in Nat /\ disk.task \in Task \cup {None}
      BY <1>1, Typed
    <3>2. disk' = [revision |-> disk.revision + 1, task |-> disk.task]
      BY <3>1, <1>2
    <3> QED BY <3>1, <3>2
  <2>2. disk.task # None => /\ Valid(disk.task) /\ disk.task.revision \in Nat
                            /\ disk.task.revision <= disk.revision
    BY <1>1, Typed DEF TypeOK
  <2> QED BY <2>1, <2>2
<1>4. /\ mem' \in [Tab -> Task \cup {None}] /\ seen' \in [Tab -> Nat]
      /\ hand' \in [Tab -> Task \cup {None}]
      /\ \A u \in Tab : u # t => seen'[u] = seen[u]
      /\ seen'[t] = Since(seen[t], disk')
      /\ \A u \in Tab : /\ hand'[u] # None => main[u] \in Working
                        /\ main[u] \in Running => Held(u)' # None
                        /\ main[u] \in {"saving", "sent"} => Held(u)'.done < Blocks
  BY <1>1, <1>2, <1>3, TypedTabs, Heeds
<1>5. queue' \in Seq(Request) /\ QueueFits'
  BY <1>1, <1>2, OthersFit
<1>6. TypeOK'
  BY <1>1, <1>2, <1>3, <1>4, <1>5 DEF TypeOK, Calm
<1>7. RunFits'
  BY <1>1, <1>2, <1>3, <1>4 DEF RunFits, Calm
<1>8. NeverAhead'
  <2>1. disk.revision <= disk'.revision /\ seen[t] \in Nat
    BY <1>1, <1>3, Typed, TypedTabs
  <2>2. cleared' = cleared /\ missed' = missed
    BY <1>2 DEF Calm
  <2> QED BY <2>1, <2>2, <1>1, <1>3, <1>4, StaysBehind
<1> QED BY <1>5, <1>6, <1>7, <1>8 DEF Fitting

LEMMA AskHeldFits ==
    ASSUME Fitting, NEW t \in Tab, AskHeld(t) \/ ForgoClear(t)
    PROVE  Fitting'
<1>1. TypeOK /\ QueueFits /\ RunFits /\ NeverAhead
  BY DEF Fitting
<1>2. /\ clearing' \in {t, None}
      /\ mem' = mem /\ hand' = hand /\ seen' = seen /\ dirty' = dirty /\ holder' = holder
      /\ main' = main /\ queue' = queue /\ draft' = draft /\ cleared' = cleared
      /\ missed' = missed /\ clears' = clears /\ imports' = imports /\ faults' = faults
      /\ disk' = disk /\ others' = others /\ changes' = changes
  BY DEF AskHeld, ForgoClear, Unwritten
<1>3. queue' \in Seq(Request) /\ QueueFits'
  BY <1>1, <1>2, OthersFit
<1>4. TypeOK'
  BY <1>1, <1>2, <1>3 DEF TypeOK
<1>5. RunFits' /\ NeverAhead'
  BY <1>1, <1>2, StillRuns DEF NeverAhead
<1> QED BY <1>3, <1>4, <1>5 DEF Fitting

LEMMA ClearFits ==
    ASSUME Fitting, NEW t \in Tab, Clear(t)
    PROVE  Fitting'
<1>1. TypeOK /\ QueueFits /\ RunFits /\ NeverAhead
  BY DEF Fitting
<1>2. /\ main[t] \notin Working /\ clearing' = None
      /\ clears' = clears + 1
      /\ disk' = [revision |-> 1, task |-> None]
      /\ mem' = [mem EXCEPT ![t] = None]
      /\ seen' = [seen EXCEPT ![t] = 1]
      /\ dirty' = [dirty EXCEPT ![t] = Clean]
      /\ cleared' = Tab \ {t} /\ missed' = missed \ {t}
      /\ hand' = hand /\ holder' = holder /\ main' = main /\ queue' = queue /\ draft' = draft
      /\ imports' = imports /\ faults' = faults /\ others' = others /\ changes' = changes
  BY DEF Clear
<1>3. queue' \in Seq(Request) /\ QueueFits'
  BY <1>1, <1>2, OthersFit
<1>4. clears' \in 0 .. MaxClears /\ clears' # 0
  <2>1. clears \in 0 .. MaxClears /\ MaxClears \in Nat
    BY <1>1, WorkspaceAssumption DEF TypeOK
  <2>2. clears < MaxClears
    BY DEF Clear
  <2> QED BY <2>1, <2>2, <1>2
<1>5. disk' \in [revision : Nat, task : Task \cup {None}] /\ disk'.task = None /\ disk'.revision = 1
  BY <1>2
<1>6. TypeOK'
  BY <1>1, <1>2, <1>3, <1>4, <1>5 DEF TypeOK
<1>7. RunFits'
  <2>1. mem \in [Tab -> Task \cup {None}]
    BY <1>1 DEF TypeOK
  <2>2. \A u \in Tab : u # t => mem'[u] = mem[u]
    BY <2>1, <1>2
  <2>3. \A u \in Tab : u # t => Held(u)' = Held(u)
    BY <2>2, <1>2, StillHeld
  <2>4. main[t] \notin Running /\ main[t] \notin {"saving", "sent"}
    BY <1>2 DEF Working, Running
  <2> QED BY <2>3, <2>4, <1>1, <1>2, <1>4 DEF RunFits
<1>8. NeverAhead'
  BY <1>1, <1>2, <1>5 DEF NeverAhead, TypeOK
<1> QED BY <1>3, <1>6, <1>7, <1>8 DEF Fitting

\* A worker that is stopped still waits for its save.
LEMMA Stops ==
    ASSUME TypeOK, QueueFits, NEW t \in Tab, StopWorker(t), queue' = queue, draft' = draft
    PROVE  /\ main' \in [Tab -> Working \cup Fixing \cup {"off"}]
           /\ \A u \in Tab : u # t => main'[u] = main[u]
           /\ main'[t] \in {main[t], Stopped(main[t])}
           /\ main'[t] # main[t] => main[t] \in Running /\ main'[t] \in {"closing", "last"}
           /\ queue' \in Seq(Request) /\ QueueFits'
<1>1. main \in [Tab -> Working \cup Fixing \cup {"off"}] /\ queue \in Seq(Request)
  BY DEF TypeOK
<1>2. PICK l : l = Stopped(main[t])
  OBVIOUS
<1>3. /\ l = main[t] \/ (main[t] \in {"run", "sent"} /\ l = "closing")
                     \/ (main[t] \in {"saving", "keeping"} /\ l = "last")
  BY <1>2 DEF Stopped
<1>4. main' = main \/ main' = [main EXCEPT ![t] = l]
  BY <1>2 DEF StopWorker
<1>5. /\ main' \in [Tab -> Working \cup Fixing \cup {"off"}]
      /\ \A u \in Tab : u # t => main'[u] = main[u]
      /\ main'[t] \in {main[t], l}
  BY <1>1, <1>3, <1>4 DEF Working, Fixing
<1>6. main'[t] # main[t] => main[t] \in Running /\ main'[t] \in {"closing", "last"}
  BY <1>3, <1>5 DEF Running
<1>7. QueueFits'
  <2>1. \A r \in Waiting(queue) : r \in Request /\ Fits(r)
    BY <1>1, WaitingRequests DEF QueueFits
  <2>2. ASSUME NEW r \in Waiting(queue), r.by = "main"
        PROVE  main'[r.tab] \in IF r.copy # None THEN Saving ELSE Asking
    <3>1. main[r.tab] \in IF r.copy # None THEN Saving ELSE Asking
      BY <2>1, <2>2 DEF Fits
    <3>2. CASE r.tab # t
      BY <3>1, <3>2, <2>1, <1>5 DEF Request
    <3>3. CASE r.tab = t
      BY <3>1, <3>3, <1>3, <1>5 DEF Saving, Asking
    <3> QED BY <3>2, <3>3
  <2>3. \A r \in Waiting(queue) : Fits(r)'
    BY <2>1, <2>2 DEF Fits
  <2> QED BY <2>3 DEF QueueFits
<1> QED BY <1>1, <1>2, <1>5, <1>6, <1>7

LEMMA HearOfClearFits ==
    ASSUME Fitting, NEW t \in Tab, HearOfClear(t)
    PROVE  Fitting'
<1>1. TypeOK /\ QueueFits /\ RunFits /\ NeverAhead
  BY DEF Fitting
<1>2. /\ ApplySince(t, disk, 0, main[t] \in Working, Unsaved(t))
      /\ StopWorker(t)
      /\ cleared' = cleared \ {t} /\ missed' = missed \ {t}
      /\ dirty' = dirty /\ holder' = holder /\ queue' = queue /\ draft' = draft
      /\ clearing' = clearing /\ clears' = clears /\ imports' = imports /\ faults' = faults
      /\ disk' = disk /\ others' = others /\ changes' = changes
  BY Zenon DEF HearOfClear, Unwritten
<1>3. /\ mem' \in [Tab -> Task \cup {None}] /\ seen' \in [Tab -> Nat]
      /\ hand' \in [Tab -> Task \cup {None}]
      /\ \A u \in Tab : u # t => seen'[u] = seen[u]
      /\ seen'[t] = Since(0, disk)
      /\ \A u \in Tab : /\ hand'[u] # None => main[u] \in Working
                        /\ main[u] \in Running => Held(u)' # None
                        /\ main[u] \in {"saving", "sent"} => Held(u)'.done < Blocks
  BY <1>1, <1>2, Typed, Heeds
<1>4. /\ main' \in [Tab -> Working \cup Fixing \cup {"off"}]
      /\ \A u \in Tab : u # t => main'[u] = main[u]
      /\ main'[t] # main[t] => main[t] \in Running /\ main'[t] \in {"closing", "last"}
      /\ queue' \in Seq(Request) /\ QueueFits'
  BY <1>1, <1>2, Stops
<1>5. \A u \in Tab : main'[u] # "off" <=> main[u] # "off"
  BY <1>4 DEF Running
<1>6. TypeOK'
  BY <1>1, <1>2, <1>3, <1>4, <1>5 DEF TypeOK
<1>7. RunFits'
  <2>1. \A u \in Tab : main'[u] = main[u]
                       \/ (main[u] \in Working /\ main'[u] \in Working /\ main'[u] \notin Running)
    <3>1. main'[t] # main[t] => main[t] \in Working /\ main'[t] \in Working /\ main'[t] \notin Running
      BY <1>4 DEF Running, Working
    <3>2. ASSUME NEW u \in Tab
          PROVE  main'[u] = main[u]
                 \/ (main[u] \in Working /\ main'[u] \in Working /\ main'[u] \notin Running)
      <4>1. CASE u = t
        BY <4>1, <3>1
      <4>2. CASE u # t
        BY <4>2, <1>4
      <4> QED BY <4>1, <4>2
    <3> QED BY <3>2
  <2>2. \A u \in Tab : main[u] \in Running /\ clears = 0 => disk.task # None
    BY <1>1 DEF RunFits
  <2>3. \A u \in Tab : main'[u] \in {"saving", "sent"} => main'[u] \in Running
    BY DEF Running
  <2> QED BY <2>1, <2>2, <2>3, <1>2, <1>3 DEF RunFits
<1>8. NeverAhead'
  <2>1. disk'.revision \in Nat /\ disk.revision <= disk'.revision
    BY <1>1, <1>2, Typed
  <2>2. seen'[t] = Since(0, disk')
    BY <1>2, <1>3
  <2> QED BY <2>1, <2>2, <1>1, <1>2, <1>3, StaysBehind
<1> QED BY <1>4, <1>6, <1>7, <1>8 DEF Fitting

LEMMA MissEventFits ==
    ASSUME Fitting, NEW t \in Tab, MissEvent(t)
    PROVE  Fitting'
<1>1. TypeOK /\ QueueFits /\ RunFits /\ NeverAhead
  BY DEF Fitting
<1>2. /\ cleared' = cleared \ {t} /\ missed' = missed \cup {t}
      /\ mem' = mem /\ hand' = hand /\ seen' = seen /\ dirty' = dirty /\ holder' = holder
      /\ main' = main /\ queue' = queue /\ draft' = draft
      /\ clearing' = clearing /\ clears' = clears /\ imports' = imports /\ faults' = faults
      /\ disk' = disk /\ others' = others /\ changes' = changes
  BY DEF MissEvent, Unwritten
<1>3. queue' \in Seq(Request) /\ QueueFits'
  BY <1>1, <1>2, OthersFit
<1>4. TypeOK'
  BY <1>1, <1>2, <1>3 DEF TypeOK
<1>5. RunFits' /\ NeverAhead'
  BY <1>1, <1>2, StillRuns DEF NeverAhead
<1> QED BY <1>3, <1>4, <1>5 DEF Fitting

LEMMA RefreshFits ==
    ASSUME Fitting, NEW t \in Tab, Refresh(t)
    PROVE  Fitting'
<1>1. TypeOK /\ QueueFits /\ RunFits /\ NeverAhead
  BY DEF Fitting
<1>2. /\ ApplySince(t, disk, seen[t], main[t] \in Working, Unsaved(t))
      /\ dirty' = dirty /\ holder' = holder /\ main' = main /\ queue' = queue /\ draft' = draft
      /\ disk' = disk /\ others' = others /\ changes' = changes /\ Calm
  BY Zenon DEF Refresh, Apply, Unwritten
<1>3. /\ mem' \in [Tab -> Task \cup {None}] /\ seen' \in [Tab -> Nat]
      /\ hand' \in [Tab -> Task \cup {None}]
      /\ \A u \in Tab : u # t => seen'[u] = seen[u]
      /\ seen'[t] = Since(seen[t], disk)
      /\ \A u \in Tab : /\ hand'[u] # None => main[u] \in Working
                        /\ main[u] \in Running => Held(u)' # None
                        /\ main[u] \in {"saving", "sent"} => Held(u)'.done < Blocks
  BY <1>1, <1>2, Typed, TypedTabs, Heeds
<1>4. queue' \in Seq(Request) /\ QueueFits'
  BY <1>1, <1>2, OthersFit
<1>5. TypeOK'
  BY <1>1, <1>2, <1>3, <1>4 DEF TypeOK, Calm
<1>6. RunFits'
  BY <1>1, <1>2, <1>3 DEF RunFits, Calm
<1>7. NeverAhead'
  <2>1. disk'.revision \in Nat /\ disk.revision <= disk'.revision /\ seen[t] \in Nat
    BY <1>1, <1>2, Typed, TypedTabs
  <2>2. seen'[t] = Since(seen[t], disk') /\ cleared' = cleared /\ missed' = missed
    BY <1>2, <1>3 DEF Calm
  <2> QED BY <2>1, <2>2, <1>1, <1>3, StaysBehind
<1> QED BY <1>4, <1>5, <1>6, <1>7 DEF Fitting

\* Nothing of the page is left in the queue.
LEMMA Withdrawals ==
    ASSUME TypeOK, QueueFits, NEW t \in Tab,
           queue' = Withdrawn(Withdrawn(queue, t, "main"), t, "editor")
    PROVE  /\ queue' \in Seq(Request)
           /\ \A r \in Waiting(queue') : r \in Waiting(queue) /\ r.tab # t
           /\ \A r, s \in Waiting(queue') : <<r, s>> \in Before(queue') => <<r, s>> \in Before(queue)
<1>1. queue \in Seq(Request) /\ \A r, s \in Waiting(queue) : <<r, s>> \in Before(queue) => Apart(r, s)
  BY DEF TypeOK, QueueFits
<1>2. PICK p : p = Withdrawn(queue, t, "main")
  OBVIOUS
<1>3. /\ p \in Seq(Request)
      /\ \A r \in Waiting(p) : r \in Waiting(queue) /\ ~(r.tab = t /\ r.by = "main")
      /\ \A r, s \in Waiting(p) : <<r, s>> \in Before(p) => <<r, s>> \in Before(queue)
  BY <1>1, <1>2, Withdraws
<1>4. \A r, s \in Waiting(p) : <<r, s>> \in Before(p) => Apart(r, s)
  BY <1>1, <1>3
<1>5. PICK q : q = Withdrawn(p, t, "editor")
  OBVIOUS
<1>6. /\ q \in Seq(Request)
      /\ \A r \in Waiting(q) : r \in Waiting(p) /\ ~(r.tab = t /\ r.by = "editor")
      /\ \A r, s \in Waiting(q) : <<r, s>> \in Before(q) => <<r, s>> \in Before(p)
  BY <1>3, <1>4, <1>5, Withdraws
<1>7. queue' = q
  BY <1>2, <1>5
<1>8. \A r \in Waiting(queue) : r.by \in {"main", "editor"}
  BY <1>1, WaitingRequests DEF Request
<1> QED BY <1>3, <1>6, <1>7, <1>8

LEMMA ReloadFits ==
    ASSUME Fitting, NEW t \in Tab, Reload(t)
    PROVE  Fitting'
<1>1. TypeOK /\ QueueFits /\ RunFits /\ NeverAhead
  BY DEF Fitting
<1>2. /\ mem' = [mem EXCEPT ![t] = disk.task]
      /\ seen' = [seen EXCEPT ![t] = disk.revision]
      /\ dirty' = [dirty EXCEPT ![t] = Clean]
      /\ holder' = IF holder = t THEN None ELSE holder
      /\ main' = [main EXCEPT ![t] = "off"]
      /\ draft' = [draft EXCEPT ![t] = None]
      /\ hand' = [hand EXCEPT ![t] = None]
      /\ clearing' \in {clearing, None}
      /\ cleared' = cleared \ {t} /\ missed' = missed \ {t}
      /\ clears' = clears /\ imports' = imports /\ faults' = faults
      /\ disk' = disk /\ others' = others /\ changes' = changes
      /\ queue' = Withdrawn(Withdrawn(queue, t, "main"), t, "editor")
  BY DEF Reload, Unwritten
<1>3. /\ queue' \in Seq(Request)
      /\ \A r \in Waiting(queue') : r \in Waiting(queue) /\ r.tab # t
      /\ \A r, s \in Waiting(queue') : <<r, s>> \in Before(queue') => <<r, s>> \in Before(queue)
  BY <1>1, <1>2, Withdrawals
<1>4. /\ mem' \in [Tab -> Task \cup {None}] /\ seen' \in [Tab -> Nat]
      /\ hand' \in [Tab -> Task \cup {None}] /\ hand'[t] = None
      /\ dirty' \in [Tab -> Nat \cup {Clean}] /\ draft' \in [Tab -> Draft \cup {None}]
      /\ main' \in [Tab -> Working \cup Fixing \cup {"off"}]
      /\ main'[t] = "off" /\ seen'[t] = disk.revision
      /\ \A u \in Tab : u # t => /\ mem'[u] = mem[u] /\ seen'[u] = seen[u] /\ hand'[u] = hand[u]
                                 /\ main'[u] = main[u] /\ draft'[u] = draft[u]
  BY <1>1, <1>2 DEF TypeOK
<1>5. QueueFits'
  <2>1. \A r \in Waiting(queue) : r \in Request /\ Fits(r)
    BY <1>1, WaitingRequests DEF TypeOK, QueueFits
  <2>2. \A r \in Waiting(queue) : r.tab # t => Fits(r)'
    BY <2>1, <1>4 DEF Fits, Request
  <2> QED BY <2>2, <1>1, <1>3 DEF QueueFits
<1>6. \A u \in Tab : main'[u] # "off" <=> holder' = u
  BY <1>1, <1>2, <1>4, Nothing DEF TypeOK
<1>7. TypeOK'
  BY <1>1, <1>2, <1>3, <1>4, <1>6 DEF TypeOK
<1>8. RunFits'
  BY <1>1, <1>2, <1>4, StillHeld DEF RunFits, Running
<1>9. NeverAhead'
  BY <1>1, <1>2, <1>4, Typed DEF NeverAhead
<1> QED BY <1>5, <1>7, <1>8, <1>9 DEF Fitting

-----------------------------------------------------------------------------
LEMMA InitFits == Init => Fitting
<1> SUFFICES ASSUME Init PROVE Fitting
  OBVIOUS
<1>1. PICK f \in Conf : disk = [revision |-> 1, task |-> NewTask(1, f)]
  BY DEF Init
<1>2. PICK k : k = NewTask(1, f)
  OBVIOUS
<1>3. k = [revision |-> 1, done |-> 0, text |-> [c \in Cue |-> None], conf |-> f]
  BY <1>2 DEF NewTask
<1>4. k \in Task
  BY <1>3, WorkspaceAssumption DEF Task
<1>5. k.revision = 1 /\ k.done = 0 /\ \A c \in Cue : k.text[c] = None /\ c \in Nat /\ ~(c <= 0)
  BY <1>3 DEF Cue
<1>6. Valid(k)
  BY <1>5 DEF Valid
<1>7. disk.revision = 1 /\ disk.task = k /\ disk \in [revision : Nat, task : Task \cup {None}]
  BY <1>1, <1>2, <1>4
<1>8. /\ mem = [t \in Tab |-> disk.task] /\ seen = [t \in Tab |-> 1]
      /\ dirty = [t \in Tab |-> Clean]
      /\ holder = None /\ main = [t \in Tab |-> "off"]
      /\ queue = <<>>
      /\ draft = [t \in Tab |-> None]
      /\ hand = [t \in Tab |-> None]
      /\ clearing = None /\ cleared = {} /\ missed = {} /\ clears = 0 /\ imports = 0 /\ faults = 0
      /\ others = [t \in Tab |-> 0] /\ changes = 0
  BY DEF Init
<1>9. TypeOK
  BY <1>4, <1>5, <1>6, <1>7, <1>8, Nothing, WorkspaceAssumption DEF TypeOK
<1>10. QueueFits
  <2>1. Waiting(queue) = {}
    BY <1>8 DEF Waiting
  <2> QED BY <2>1 DEF QueueFits
<1>11. RunFits /\ NeverAhead
  BY <1>7, <1>8 DEF RunFits, Running, NeverAhead
<1> QED BY <1>9, <1>10, <1>11 DEF Fitting

\* Every step keeps everything fitting.
LEMMA NextFits == Fitting /\ [Next]_vars => Fitting'
<1> SUFFICES ASSUME Fitting, [Next]_vars PROVE Fitting'
  OBVIOUS
<1>1. CASE UNCHANGED vars
  <2>1. /\ disk' = disk /\ mem' = mem /\ seen' = seen /\ dirty' = dirty /\ holder' = holder
        /\ main' = main /\ queue' = queue /\ draft' = draft /\ hand' = hand
        /\ clearing' = clearing /\ cleared' = cleared /\ missed' = missed
        /\ clears' = clears /\ imports' = imports /\ faults' = faults
        /\ others' = others /\ changes' = changes
    BY <1>1 DEF vars
  <2>2. TypeOK /\ QueueFits /\ RunFits /\ NeverAhead
    BY DEF Fitting
  <2>3. QueueFits'
    BY <2>1, <2>2, OthersFit
  <2>4. TypeOK' /\ RunFits' /\ NeverAhead'
    BY <2>1, <2>2, StillRuns DEF TypeOK, NeverAhead
  <2> QED BY <2>3, <2>4 DEF Fitting
<1>2. CASE Next
  <2>1. PICK t \in Tab :
           Work(t) \/ Persist(t) \/ Edit(t) \/ Administer(t) \/ Hear(t) \/ Reload(t)
    BY <1>2 DEF Next
  <2>2. CASE Work(t)
    BY <2>2, StartFits, RunSaveFits, AnswerBlockFits, RunEndFits, FinishFits DEF Work
  <2>3. CASE Persist(t)
    BY <2>3, SaveMergedFits, SaveFailsFits DEF Persist
  <2>4. CASE Edit(t)
    BY <2>4, TypeFits, SaveDraftFits, CommitDraftFits, RejectDraftFits, KeepMineFits, DropDraftFits
       DEF Edit
  <2>5. CASE Administer(t)
    BY <2>5, StartFixFits, FixFits, StartDeleteFits, DeleteFits, ChangeFailsFits, UnlockFits,
       ImportFits, WriteOtherFits, AskHeldFits, ClearFits DEF Administer
  <2>6. CASE Hear(t)
    BY <2>6, HearOfClearFits, MissEventFits, RefreshFits DEF Hear
  <2>7. CASE Reload(t)
    BY <2>7, ReloadFits
  <2> QED BY <2>1, <2>2, <2>3, <2>4, <2>5, <2>6, <2>7
<1> QED BY <1>1, <1>2

-----------------------------------------------------------------------------
(* What agrees with what.                                                  *)

LEMMA Itself ==
    ASSUME NEW m \in Task
    PROVE  Agree(m, m) /\ Near(m, m) /\ Within(m, m) /\ Alike(m, m) /\ Same(m, m)
<1>1. m.done \in Nat
  BY WorkspaceAssumption DEF Task
<1> QED BY <1>1 DEF Agree, Near, Within, Alike, Same

\* What agrees is near, and so is what is like something near.
LEMMA Nearer ==
    ASSUME NEW m, NEW n, NEW k
    PROVE  /\ Agree(m, k) => Near(m, k)
           /\ Alike(m, n) /\ Near(n, k) => Near(m, k)
           /\ Same(m, n) /\ Agree(n, k) => Agree(m, k)
           /\ Same(m, n) => Alike(m, n)
           /\ Alike(m, n) => Alike(n, m)
           /\ Same(m, n) => Same(n, m)
BY DEF Agree, Near, Alike, Same

LEMMA Chains ==
    ASSUME NEW m, NEW n, NEW k
    PROVE  /\ Alike(m, n) /\ Alike(n, k) => Alike(m, k)
           /\ Same(m, n) /\ Same(n, k) => Same(m, k)
BY DEF Alike, Same

-----------------------------------------------------------------------------
(* What stands.                                                            *)

LEMMA Known ==
    ASSUME Standing
    PROVE  /\ TypeOK /\ QueueFits /\ RunFits /\ NeverAhead
           /\ disk.task # None /\ disk.task \in Task /\ Valid(disk.task)
           /\ disk.task.revision \in Nat /\ disk.task.done \in Nat /\ disk.revision \in Nat
           /\ disk.task.revision <= disk.revision
           /\ Young /\ Behind /\ CopiesAgree /\ RunAgrees /\ QueueAgrees
           /\ Listed /\ cleared = {} /\ missed = {} /\ clears = 0 /\ imports = 0
<1>1. TypeOK /\ QueueFits /\ RunFits /\ NeverAhead /\ disk.task # None /\ imports = 0
  BY DEF Standing, Fitting, Original
<1>2. Young /\ Behind /\ CopiesAgree /\ RunAgrees /\ QueueAgrees /\ Listed
  BY DEF Standing, Agrees
<1>3. /\ disk.task \in Task /\ Valid(disk.task)
      /\ disk.task.revision \in Nat /\ disk.revision \in Nat
  BY <1>1, Typed
<1>4. disk.task.done \in Nat
  BY <1>3, WorkspaceAssumption DEF Task
<1>5. disk.task.revision <= disk.revision
  BY <1>1 DEF TypeOK
<1> QED BY <1>1, <1>2, <1>3, <1>4, <1>5 DEF Young

LEMMA KnownTabs ==
    ASSUME Standing, NEW t \in Tab
    PROVE  /\ mem[t] # None /\ mem[t] \in Task /\ mem[t].revision \in Nat /\ mem[t].done \in Nat
           /\ mem[t].revision <= disk.task.revision
           /\ dirty[t] \in Nat \cup {Clean} /\ Clean \notin Nat
           /\ dirty[t] # Clean => dirty[t] \in Nat /\ dirty[t] <= disk.task.revision
           /\ seen[t] \in Nat /\ seen[t] <= disk.revision
           /\ Runs(t)
           /\ mem[t].revision = disk.task.revision => Agree(mem[t], disk.task)
           /\ dirty[t] = disk.task.revision => Agree(mem[t], disk.task)
           /\ main[t] # "off" <=> holder = t
           /\ hand[t] = None /\ Held(t) = mem[t]
<1>1. /\ TypeOK /\ Young /\ Behind /\ CopiesAgree /\ RunAgrees
  BY Known
<1>2. mem[t] # None /\ mem[t] \in Task /\ dirty[t] \in Nat \cup {Clean} /\ seen[t] \in Nat
  BY <1>1, TypedTabs DEF Young
<1>3. mem[t].revision \in Nat /\ mem[t].done \in Nat
  BY <1>2, WorkspaceAssumption DEF Task
<1>4. /\ mem[t].revision <= disk.task.revision
      /\ dirty[t] # Clean => dirty[t] <= disk.task.revision
  BY <1>1 DEF Behind
<1>6. hand[t] = None /\ Held(t) = mem[t]
  BY Known DEF Listed, Held
<1>5. Runs(t) /\ seen[t] <= disk.revision /\ (main[t] # "off" <=> holder = t)
  BY <1>1 DEF RunAgrees, Young, TypeOK
<1> QED BY <1>1, <1>2, <1>3, <1>4, <1>5, <1>6, Nothing DEF CopiesAgree

LEMMA KnownRequests ==
    ASSUME Standing, NEW r \in Waiting(queue)
    PROVE  /\ r \in Request /\ Fits(r) /\ r.tab \in Tab /\ r.by \in {"main", "editor"}
           /\ r.base \in Nat /\ r.base <= disk.task.revision
           /\ r.copy # None => r.copy \in Task /\ Valid(r.copy) /\ Based(r) /\ Unbased(r)
           /\ r.by = "main" => main[r.tab] # "off" /\ holder = r.tab
<1>1. TypeOK /\ QueueFits /\ Behind /\ QueueAgrees
  BY Known
<1>2. r \in Request /\ Fits(r)
  BY <1>1, WaitingRequests DEF TypeOK, QueueFits
<1>3. r.tab \in Tab /\ r.by \in {"main", "editor"} /\ r.base \in Nat /\ r.copy \in Task \cup {None}
  BY <1>2 DEF Request
<1>4. r.by = "main" => main[r.tab] # "off"
  BY <1>2 DEF Fits, Saving, Asking
<1>5. r.base <= disk.task.revision
  BY <1>1 DEF Behind
<1>6. r.copy # None => Based(r) /\ Unbased(r)
  BY <1>1 DEF QueueAgrees
<1>7. r.copy # None => Valid(r.copy)
  BY <1>2 DEF Fits
<1> QED BY <1>1, <1>2, <1>3, <1>4, <1>5, <1>6, <1>7, KnownTabs

\* A checkpoint of another tab is not concerned by a step that leaves the task alone.
LEMMA OfOthers ==
    ASSUME NEW r, disk'.task = disk.task, mem'[r.tab] = mem[r.tab], dirty'[r.tab] = dirty[r.tab],
           main'[r.tab] = main[r.tab], Based(r), Unbased(r)
    PROVE  Based(r)' /\ Unbased(r)'
BY DEF Based, Unbased

\* Tab t takes a step that leaves the task alone and the others' copies.
LEMMA SameTask ==
    ASSUME Standing, Fitting', Original', NEW t \in Tab,
           disk'.task = disk.task, cleared' = {} /\ missed' = {}, clears' = 0,
           \A u \in Tab : u # t => mem'[u] = mem[u] /\ dirty'[u] = dirty[u] /\ main'[u] = main[u],
           mem'[t] # None, mem'[t].revision <= disk.task.revision,
           dirty'[t] # Clean => dirty'[t] <= disk.task.revision,
           mem'[t].revision = disk.task.revision \/ dirty'[t] = disk.task.revision
               => Agree(mem'[t], disk.task),
           Runs(t)',
           main'[t] \in {"sent", "keeping"} => \A u \in Tab : dirty'[u] # disk.task.revision,
           dirty'[t] = disk.task.revision => \A u \in Tab : main'[u] \notin {"sent", "keeping"},
           \A r \in Waiting(queue)' : r.base <= disk.task.revision,
           QueueAgrees'
    PROVE  Agrees'
<1>1. /\ Young /\ Behind /\ CopiesAgree /\ RunAgrees
  BY Known
<1>2. Young'
  BY <1>1 DEF Young, Fitting, NeverAhead
<1>3. Behind'
  BY <1>1 DEF Behind
<1>4. CopiesAgree'
  BY <1>1 DEF CopiesAgree
<1>5. \A u \in Tab : u # t => Runs(u)'
  <2>1. \A u \in Tab : Runs(u)
    BY <1>1 DEF RunAgrees
  <2> QED BY <2>1 DEF Runs
<1>6. RunAgrees'
  <2>1. ASSUME NEW u \in Tab, NEW v \in Tab, main'[u] \in {"sent", "keeping"}
        PROVE  dirty'[v] # disk.task.revision
    BY <2>1, <1>1 DEF RunAgrees
  <2> QED BY <2>1, <1>5 DEF RunAgrees
<1> QED BY <1>2, <1>3, <1>4, <1>6 DEF Agrees

\* The queue when the holder t of the job lock, or the tab that takes it, has made its
\* step: only editors wait besides its own new request.
LEMMA LockQueue ==
    ASSUME Standing, NEW t \in Tab, \A u \in Tab : u # t => main[u] = "off",
           NEW e \in Request, e.by = "main", e.tab = t,
           \/ main[t] \notin Saving \cup Asking /\ (queue' = queue \/ queue' = Append(queue, e))
           \/ /\ queue # <<>> /\ Head(queue).tab = t /\ Head(queue).by = "main"
              /\ queue' = Tail(queue) \/ queue' = Append(Tail(queue), e)
    PROVE  /\ \A r \in Waiting(queue') :
                 r = e \/ (r \in Waiting(queue) /\ r.by = "editor" /\ r \in Request)
           /\ \A r, s \in Waiting(queue') :
                 <<r, s>> \in Before(queue') => s = e \/ r.by = "editor"
           /\ queue # <<>> /\ Head(queue).by = "main" =>
                 \A r \in Waiting(queue') : r = e \/ <<Head(queue), r>> \in Before(queue)
<1>1. TypeOK /\ QueueFits /\ queue \in Seq(Request)
  BY Known DEF TypeOK
<1>2. \A r \in Waiting(queue) :
         /\ r \in Request /\ r.by \in {"main", "editor"}
         /\ r.by = "main" => r.tab = t /\ main[t] \in Saving \cup Asking
  <2>1. ASSUME NEW r \in Waiting(queue) PROVE r \in Request /\ Fits(r)
    BY <1>1, WaitingRequests DEF QueueFits
  <2> QED BY <2>1 DEF Fits, Request, Saving, Asking
<1>3. CASE main[t] \notin Saving \cup Asking /\ queue' = queue
  <2>1. \A r \in Waiting(queue) : r.by = "editor"
    BY <1>2, <1>3
  <2>2. queue = <<>> \/ Head(queue) \in Waiting(queue)
    BY <1>1, Leaves, Zenon
  <2> QED BY <1>2, <1>3, <2>1, <2>2
<1>4. CASE main[t] \notin Saving \cup Asking /\ queue' = Append(queue, e)
  <2>1. \A r \in Waiting(queue) : r.by = "editor"
    BY <1>2, <1>4
  <2>2. queue = <<>> \/ Head(queue) \in Waiting(queue)
    BY <1>1, Leaves, Zenon
  <2>3. /\ \A r \in Waiting(queue') : r \in Waiting(queue) \/ r = e
        /\ \A r, s \in Waiting(queue') : <<r, s>> \in Before(queue') =>
              \/ <<r, s>> \in Before(queue)
              \/ r \in Waiting(queue) /\ s = e
    BY <1>1, <1>4, Joins, Zenon
  <2>4. \A r, s \in Waiting(queue') : <<r, s>> \in Before(queue) => r \in Waiting(queue)
    BY <1>1, WaitingRequests
  <2> QED BY <1>2, <2>1, <2>2, <2>3, <2>4
<1>5. CASE /\ queue # <<>> /\ Head(queue).tab = t /\ Head(queue).by = "main"
           /\ queue' = Tail(queue) \/ queue' = Append(Tail(queue), e)
  <2>1. /\ \A r \in Waiting(queue') :
              \/ r \in Waiting(queue) /\ <<Head(queue), r>> \in Before(queue)
              \/ r = e
        /\ \A r, s \in Waiting(queue') : <<r, s>> \in Before(queue') =>
              \/ r \in Waiting(queue) /\ <<Head(queue), r>> \in Before(queue)
              \/ s = e
    <3>1. CASE queue' = Tail(queue)
      <4>1. \A r \in Waiting(queue') : r \in Waiting(queue) /\ <<Head(queue), r>> \in Before(queue)
        BY <1>1, <1>5, <3>1, Leaves, Zenon
      <4> QED BY <4>1
    <3>2. CASE queue' = Append(Tail(queue), e)
      <4>1. /\ \A r \in Waiting(queue') :
                  \/ r \in Waiting(queue) /\ <<Head(queue), r>> \in Before(queue)
                  \/ r = e
            /\ \A r, s \in Waiting(queue') : <<r, s>> \in Before(queue') =>
                  \/ <<r, s>> \in Before(queue) /\ <<Head(queue), r>> \in Before(queue)
                  \/ r \in Waiting(queue) /\ <<Head(queue), r>> \in Before(queue) /\ s = e
        BY <1>1, <1>5, <3>2, AsksMore, Zenon
      <4>2. \A r, s : <<r, s>> \in Before(queue) => r \in Waiting(queue)
        BY <1>1, WaitingRequests, Zenon
      <4> QED BY <4>1, <4>2
    <3> QED BY <1>5, <3>1, <3>2
  <2>2. Head(queue) \in Waiting(queue)
    BY <1>1, <1>5, Leaves, Zenon
  <2>3. \A r \in Waiting(queue) : <<Head(queue), r>> \in Before(queue) => r.by = "editor"
    BY <1>1, <1>2, <1>5, <2>2 DEF QueueFits, Apart
  <2> QED BY <1>2, <2>1, <2>3
<1> QED BY <1>3, <1>4, <1>5

\* The tab that holds the job lock, takes it or lets it go takes a step that leaves
\* the task alone; e is what it asks for, if anything.
LEMMA LockSteps ==
    ASSUME Standing, Fitting', Original', NEW t \in Tab, \A u \in Tab : u # t => main[u] = "off",
           disk'.task = disk.task, cleared' = {} /\ missed' = {}, clears' = 0,
           \A u \in Tab : u # t => mem'[u] = mem[u] /\ dirty'[u] = dirty[u] /\ main'[u] = main[u],
           mem'[t] \in Task, mem'[t].revision <= disk.task.revision,
           dirty'[t] # Clean => dirty'[t] <= disk.task.revision,
           mem'[t].revision = disk.task.revision \/ dirty'[t] = disk.task.revision
               => Agree(mem'[t], disk.task),
           Runs(t)',
           main'[t] \in {"sent", "keeping"} => \A u \in Tab : dirty'[u] # disk.task.revision,
           dirty[t] = disk.task.revision => dirty'[t] = dirty[t] /\ mem'[t] = mem[t],
           dirty'[t] = Clean => dirty[t] = Clean /\ main'[t] \notin {"retry", "fixRetry"},
           NEW e \in Request, e.by = "main", e.tab = t,
           \/ e.copy = None /\ e.base = 0
           \/ /\ e.copy = mem'[t] /\ main'[t] \in Saving
              /\ e.base = IF dirty'[t] # Clean THEN dirty'[t] ELSE mem'[t].revision,
           \/ main[t] \notin Saving \cup Asking /\ (queue' = queue \/ queue' = Append(queue, e))
           \/ /\ queue # <<>> /\ Head(queue).tab = t /\ Head(queue).by = "main"
              /\ queue' = Tail(queue) \/ queue' = Append(Tail(queue), e)
    PROVE  Agrees'
<1>1. /\ \A r \in Waiting(queue') :
            r = e \/ (r \in Waiting(queue) /\ r.by = "editor" /\ r \in Request)
      /\ \A r, s \in Waiting(queue') :
            <<r, s>> \in Before(queue') => s = e \/ r.by = "editor"
  BY LockQueue
<1>2. /\ disk.task.revision \in Nat /\ mem[t].revision \in Nat
      /\ dirty[t] \in Nat \cup {Clean} /\ Clean \notin Nat
  BY Known, KnownTabs
<1>3. e.base <= disk.task.revision
  BY <1>2
<1>4. \A r \in Waiting(queue)' : r.base <= disk.task.revision
  <2>1. \A r \in Waiting(queue) : r.base <= disk.task.revision
    BY KnownRequests
  <2> QED BY <2>1, <1>1, <1>3
<1>5. ASSUME NEW r \in Waiting(queue), r.by = "editor", r.copy # None
      PROVE  Based(r)' /\ Unbased(r)'
  <2>1. /\ Based(r) /\ Unbased(r) /\ r.tab \in Tab
    BY <1>5, KnownRequests
  <2>2. CASE r.tab # t
    BY <2>1, <2>2, OfOthers
  <2>3. CASE r.tab = t
    <3>1. Based(r)'
      BY <2>1, <2>3, <1>5 DEF Based
    <3>2. Unbased(r)'
      BY <2>1, <2>3, <1>5 DEF Unbased
    <3> QED BY <3>1, <3>2
  <2> QED BY <2>2, <2>3
<1>6. ASSUME e.copy # None
      PROVE  Based(e)' /\ Unbased(e)'
  <2>1. /\ e.copy = mem'[t] /\ main'[t] \in Saving
        /\ e.base = IF dirty'[t] # Clean THEN dirty'[t] ELSE mem'[t].revision
    BY <1>6
  <2>2. Same(mem'[t], mem'[t]) /\ Alike(mem'[t], mem'[t])
    BY Itself
  <2>3. Based(e)'
    <3>1. e.base = disk'.task.revision => Agree(e.copy, disk'.task) /\ Same(mem'[e.tab], e.copy)
      BY <2>1, <2>2
    <3>2. dirty'[e.tab] = disk'.task.revision => e.base = disk'.task.revision
      BY <2>1, <1>2
    <3>3. main'[e.tab] \in {"retry", "fixRetry"} /\ e.base = disk'.task.revision
             => dirty'[e.tab] # Clean
      OBVIOUS
    <3> QED BY <3>1, <3>2, <3>3 DEF Based
  <2>4. Unbased(e)'
    <3>1. Alike(mem'[e.tab], e.copy)
      BY <2>1, <2>2
    <3>2. dirty'[e.tab] = Clean => Near(e.copy, disk'.task)
      BY <2>1 DEF Saving, Runs
    <3> QED BY <3>1, <3>2 DEF Unbased
  <2> QED BY <2>3, <2>4
<1>7. QueueAgrees'
  <2>1. ASSUME NEW r \in Waiting(queue)', r.copy # None
        PROVE  Based(r)' /\ Unbased(r)'
    BY <2>1, <1>1, <1>5, <1>6
  <2>2. ASSUME NEW r \in Waiting(queue)', NEW s \in Waiting(queue)', <<r, s>> \in Before(queue)'
        PROVE  InOrder(r, s)'
    BY <2>2, <1>1 DEF InOrder
  <2> QED BY <2>1, <2>2 DEF QueueAgrees
<1>8. dirty'[t] = disk.task.revision => \A u \in Tab : main'[u] \notin {"sent", "keeping"}
  OBVIOUS
<1>9. mem'[t] # None
  BY Nothing
<1> QED BY <1>4, <1>7, <1>8, <1>9, SameTask

\* The others do nothing with the lock of a tab that holds it or takes it.
LEMMA Alone ==
    ASSUME Standing, NEW t \in Tab, holder = None \/ main[t] # "off"
    PROVE  \A u \in Tab : u # t => main[u] = "off"
<1>1. \A u \in Tab : main[u] # "off" => holder = u
  BY KnownTabs
<1> QED BY <1>1, Nothing

\* The request of a change.
LEMMA Asked ==
    ASSUME NEW t \in Tab
    PROVE  /\ Plain(t, "main") \in Request
           /\ Plain(t, "main").tab = t /\ Plain(t, "main").by = "main"
           /\ Plain(t, "main").copy = None /\ Plain(t, "main").base = 0
<1>1. Plain(t, "main") = [tab |-> t, by |-> "main", copy |-> None, base |-> 0]
  BY DEF Plain
<1> QED BY <1>1 DEF Request

\* A step that writes nothing at all.
LEMMA Calmly ==
    ASSUME Standing, Unwritten, Calm
    PROVE  disk' = disk /\ disk'.task = disk.task /\ cleared' = {} /\ missed' = {} /\ clears' = 0
BY Known DEF Unwritten, Calm

\* The worker's copy becomes m and is saved.
LEMMA CopyAgrees ==
    ASSUME Standing, Fitting', Original', NEW t \in Tab, \A u \in Tab : u # t => main[u] = "off",
           Unwritten, Calm, dirty' = dirty, draft' = draft,
           main[t] \notin Saving \cup Asking, NEW l \in Saving, NEW z \in {"closing", "unlock"},
           NEW m \in Task, SaveCopy(t, m, l, z),
           m.revision <= disk.task.revision, m.revision = disk.task.revision => Agree(m, disk.task),
           dirty[t] = disk.task.revision => m = mem[t],
           l \in {"retry", "fixRetry"} => dirty[t] # Clean,
           l = "keeping" => \A u \in Tab : dirty[u] # disk.task.revision,
           Runs(t)'
    PROVE  Agrees'
<1>1. /\ disk'.task = disk.task /\ cleared' = {} /\ missed' = {} /\ clears' = 0
  BY Calmly
<1>2. TypeOK /\ QueueFits
  BY Known
<1>3. /\ \A u \in Tab : u # t => mem'[u] = mem[u] /\ main'[u] = main[u]
      /\ \/ /\ mem'[t] = m /\ main'[t] = l
            /\ queue' = Append(queue, Checkpoint(t, "main", m, dirty[t]))
         \/ mem' = mem /\ main'[t] = z /\ queue' = queue
  BY <1>2, CopySaved, KnownTabs
<1>4. /\ mem[t] \in Task /\ mem[t].revision <= disk.task.revision
      /\ dirty[t] \in Nat \cup {Clean}
      /\ dirty[t] # Clean => dirty[t] <= disk.task.revision
      /\ mem[t].revision = disk.task.revision => Agree(mem[t], disk.task)
      /\ dirty[t] = disk.task.revision => Agree(mem[t], disk.task)
  BY KnownTabs
<1>5. l # "sent" /\ z \notin {"sent", "keeping", "retry", "fixRetry"}
  BY DEF Saving
<1>6. CASE /\ mem'[t] = m /\ main'[t] = l
           /\ queue' = Append(queue, Checkpoint(t, "main", m, dirty[t]))
  <2>1. PICK e \in Request : /\ e = Checkpoint(t, "main", m, dirty[t])
                             /\ e.tab = t /\ e.by = "main" /\ e.copy = m
                             /\ e.base = IF dirty[t] # Clean THEN dirty[t] ELSE m.revision
    BY <1>4, Requests
  <2> QED BY <2>1, <1>1, <1>3, <1>4, <1>5, <1>6, LockSteps
<1>7. CASE mem' = mem /\ main'[t] = z /\ queue' = queue
  <2>1. PICK e \in Request : /\ e = Plain(t, "main")
                             /\ e.tab = t /\ e.by = "main" /\ e.copy = None /\ e.base = 0
    BY Asked
  <2> QED BY <2>1, <1>1, <1>3, <1>4, <1>5, <1>7, LockSteps
<1> QED BY <1>3, <1>6, <1>7

LEMMA StartAgrees ==
    ASSUME Standing, Fitting', Original', NEW t \in Tab, Start(t)
    PROVE  Agrees'
<1>1. /\ holder = None /\ dirty' = dirty /\ draft' = draft /\ Unwritten /\ Calm
  BY DEF Start
<1>2. /\ disk' = disk /\ disk'.task = disk.task /\ cleared' = {} /\ missed' = {} /\ clears' = 0
  BY <1>1, Calmly
<1>3. /\ \A u \in Tab : u # t => main[u] = "off"
      /\ main[t] \notin Saving \cup Asking
  <2>1. main[t] = "off"
    BY <1>1, Known, Nothing DEF TypeOK
  <2> QED BY <2>1, <1>1, Alone DEF Saving, Asking
<1>4. /\ mem[t] \in Task /\ mem[t].revision <= disk.task.revision
      /\ mem[t].revision = disk.task.revision => Agree(mem[t], disk.task)
      /\ dirty[t] = disk.task.revision => Agree(mem[t], disk.task)
      /\ dirty[t] \in Nat \cup {Clean}
      /\ dirty[t] # Clean => dirty[t] <= disk.task.revision
  BY KnownTabs
<1>5. /\ disk.task \in Task /\ disk.task # None /\ disk.task.revision \in Nat
      /\ TypeOK /\ QueueFits
  BY Known
<1>6. CASE Unsaved(t)
  <2>1. SaveCopy(t, mem[t], "retry", "closing") /\ "retry" \in Saving /\ dirty[t] # Clean
    BY <1>6 DEF Start, Saving, Unsaved
  <2>2. main'[t] \in {"retry", "closing"}
    BY <2>1, <1>1, <1>3, <1>4, <1>5, CopySaved, KnownTabs
  <2>3. Runs(t)'
    BY <2>1, <2>2, <1>1 DEF Runs
  <2> QED BY <2>1, <2>3, <1>1, <1>3, <1>4, CopyAgrees
<1>7. CASE ~Unsaved(t)
  <2>1. /\ mem' = [mem EXCEPT ![t] = disk.task]
        /\ main' = [main EXCEPT ![t] = Begin(disk.task)]
        /\ queue' = queue /\ dirty[t] = Clean
    BY <1>5, <1>7 DEF Start, Unsaved
  <2>2. /\ mem'[t] = disk.task /\ main'[t] \in {"run", "closing"}
        /\ \A u \in Tab : u # t => mem'[u] = mem[u] /\ main'[u] = main[u]
    BY <2>1, <1>5 DEF TypeOK, Begin
  <2>3. Agree(disk.task, disk.task) /\ Near(disk.task, disk.task)
    BY <1>5, Itself
  <2>4. Runs(t)'
    BY <2>2, <2>3, <1>2 DEF Runs
  <2>5. PICK e \in Request : /\ e.tab = t /\ e.by = "main" /\ e.copy = None /\ e.base = 0
    BY Asked
  <2>6. dirty[t] # disk.task.revision
    BY <2>1, <1>5, Nothing
  <2> QED BY <2>1, <2>2, <2>3, <2>4, <2>5, <2>6, <1>1, <1>2, <1>3, <1>5, LockSteps
<1> QED BY <1>6, <1>7

LEMMA RunSaveAgrees ==
    ASSUME Standing, Fitting', Original', NEW t \in Tab, RunSave(t)
    PROVE  Agrees'
<1>1. /\ main[t] \in {"run", "sent"}
      /\ SaveCopy(t, mem[t], "saving", "closing")
      /\ dirty' = dirty /\ draft' = draft /\ Unwritten /\ Calm
  BY KnownTabs DEF RunSave
<1>2. /\ disk'.task = disk.task
  BY <1>1, Calmly
<1>3. /\ \A u \in Tab : u # t => main[u] = "off"
      /\ main[t] \notin Saving \cup Asking /\ "saving" \in Saving
  BY <1>1, Alone DEF Saving, Asking
<1>4. /\ mem[t] \in Task /\ mem[t].revision <= disk.task.revision
      /\ mem[t].revision = disk.task.revision => Agree(mem[t], disk.task)
      /\ Runs(t)
  BY KnownTabs
<1>5. mem'[t] = mem[t] /\ main'[t] \in {"saving", "closing"}
  BY <1>1, <1>3, <1>4, Known, KnownTabs, CopySaved
<1>6. Runs(t)'
  BY <1>1, <1>2, <1>4, <1>5 DEF Runs
<1> QED BY <1>1, <1>3, <1>4, <1>6, CopyAgrees

LEMMA AnswerBlockAgrees ==
    ASSUME Standing, Fitting', Original', NEW t \in Tab, AnswerBlock(t)
    PROVE  Agrees'
<1>1. /\ main[t] = "sent"
      /\ dirty' = dirty /\ draft' = draft /\ Unwritten /\ Calm
  BY DEF AnswerBlock
<1>2. disk' = disk /\ disk'.task = disk.task
  BY <1>1, Calmly
<1>3. /\ \A u \in Tab : u # t => main[u] = "off"
      /\ main[t] \notin Saving \cup Asking /\ "keeping" \in Saving
  BY <1>1, Alone DEF Saving, Asking
<1>4. /\ mem[t] \in Task /\ mem[t].revision <= disk.task.revision /\ mem[t].done \in Nat
      /\ mem[t].revision = disk.task.revision => Agree(mem[t], disk.task)
      /\ Runs(t)
  BY KnownTabs
<1>5. /\ disk.task \in Task /\ disk.task.done \in Nat /\ TypeOK /\ QueueFits /\ RunFits
      /\ \A u \in Tab : dirty[u] # disk.task.revision
  BY <1>1, Known DEF RunAgrees
<1>6. PICK v \in Text : SaveCopy(t, Answer(mem[t], v), "keeping", "closing")
  BY KnownTabs DEF AnswerBlock, Answer
<1>7. PICK m : m = Answer(mem[t], v)
  OBVIOUS
<1>8. mem[t].done < Blocks
  BY <1>1, <1>5, KnownTabs DEF RunFits
<1>9. /\ m \in Task /\ m.done = mem[t].done + 1 /\ m.conf = mem[t].conf
      /\ m.revision = mem[t].revision
      /\ \A c \in Cue : c # mem[t].done + 1 => m.text[c] = mem[t].text[c]
  <2>1. PICK o \in Task : o = mem[t]
    BY <1>4
  <2>2. o.done < Blocks
    BY <2>1, <1>8
  <2>3. /\ Answer(o, v) \in Task /\ Answer(o, v).done = o.done + 1
        /\ Answer(o, v).conf = o.conf /\ Answer(o, v).revision = o.revision
        /\ \A c \in Cue : c # o.done + 1 => Answer(o, v).text[c] = o.text[c]
    BY <2>2, Answered, Zenon
  <2> QED BY <2>1, <2>3, <1>7
<1>10. mem[t].done = disk.task.done /\ Near(mem[t], disk.task)
  BY <1>1, <1>4 DEF Runs
<1>11. m.revision = disk.task.revision => Agree(m, disk.task)
  <2>1. ASSUME Agree(mem[t], disk.task) PROVE Agree(m, disk.task)
    <3>1. m.conf = disk.task.conf /\ m.done <= disk.task.done + 1
      BY <2>1, <1>5, <1>9, <1>10 DEF Agree
    <3>2. ASSUME NEW c \in 1 .. disk.task.done PROVE m.text[c] = disk.task.text[c]
      <4>1. c \in Cue /\ c # mem[t].done + 1
        BY <1>5, <1>8, <1>10, WorkspaceAssumption DEF Cue
      <4> QED BY <4>1, <2>1, <1>9 DEF Agree
    <3> QED BY <3>1, <3>2 DEF Agree
  <2> QED BY <2>1, <1>4, <1>9
<1>12. SaveCopy(t, m, "keeping", "closing")
  BY <1>6, <1>7
<1>13. \/ mem'[t] = m /\ main'[t] = "keeping"
       \/ mem'[t] = mem[t] /\ main'[t] = "closing"
  BY <1>1, <1>3, <1>5, <1>9, <1>12, CopySaved, KnownTabs
<1>14. Runs(t)'
  <2>1. CASE mem'[t] = m /\ main'[t] = "keeping"
    <3>1. Near(m, disk.task) /\ m.done = disk.task.done + 1
      BY <1>4, <1>5, <1>9, <1>10 DEF Near
    <3> QED BY <3>1, <2>1, <1>2 DEF Runs
  <2>2. CASE mem'[t] = mem[t] /\ main'[t] = "closing"
    BY <2>2, <1>2, <1>10 DEF Runs
  <2> QED BY <2>1, <2>2, <1>13
<1>15. m.revision <= disk.task.revision /\ dirty[t] # disk.task.revision
  BY <1>4, <1>5, <1>9
<1> QED BY <1>1, <1>3, <1>5, <1>9, <1>11, <1>12, <1>14, <1>15, CopyAgrees

LEMMA RunEndAgrees ==
    ASSUME Standing, Fitting', Original', NEW t \in Tab, RunEnd(t)
    PROVE  Agrees'
<1>1. /\ main[t] \in {"run", "sent"}
      /\ dirty' = dirty /\ draft' = draft /\ Unwritten /\ Calm
  BY DEF RunEnd
<1>2. /\ disk' = disk /\ disk'.task = disk.task /\ cleared' = {} /\ missed' = {} /\ clears' = 0
  BY <1>1, Calmly
<1>3. /\ \A u \in Tab : u # t => main[u] = "off"
      /\ main[t] \notin Saving \cup Asking /\ "last" \in Saving
  BY <1>1, Alone DEF Saving, Asking
<1>4. /\ mem[t] \in Task /\ mem[t].revision <= disk.task.revision
      /\ mem[t].revision = disk.task.revision => Agree(mem[t], disk.task)
      /\ dirty[t] = disk.task.revision => Agree(mem[t], disk.task)
      /\ dirty[t] # Clean => dirty[t] <= disk.task.revision
      /\ Runs(t)
  BY KnownTabs
<1>5. CASE mem[t].done < Blocks
  <2>1. SaveCopy(t, mem[t], "last", "closing")
    BY <1>5, KnownTabs DEF RunEnd
  <2>2. mem'[t] = mem[t] /\ main'[t] \in {"last", "closing"}
    BY <2>1, <1>1, <1>3, <1>4, Known, KnownTabs, CopySaved
  <2>3. Runs(t)'
    BY <2>2, <1>1, <1>2, <1>4 DEF Runs
  <2> QED BY <2>1, <2>3, <1>1, <1>3, <1>4, CopyAgrees
<1>6. CASE ~(mem[t].done < Blocks)
  <2>1. main' = [main EXCEPT ![t] = "closing"] /\ mem' = mem /\ queue' = queue
    BY <1>6, KnownTabs DEF RunEnd
  <2>2. main'[t] = "closing" /\ \A u \in Tab : u # t => main'[u] = main[u]
    BY <2>1, Known DEF TypeOK
  <2>3. Runs(t)'
    BY <2>1, <2>2, <1>1, <1>2, <1>4 DEF Runs
  <2>4. PICK e \in Request : /\ e.tab = t /\ e.by = "main" /\ e.copy = None /\ e.base = 0
    BY Asked
  <2> QED BY <2>1, <2>2, <2>3, <2>4, <1>1, <1>2, <1>3, <1>4, LockSteps
<1> QED BY <1>5, <1>6

\* When the lock is let go, the tab takes over what is stored.
LEMMA FinishAgrees ==
    ASSUME Standing, Fitting', Original', NEW t \in Tab, Finish(t)
    PROVE  Agrees'
<1>1. /\ main[t] = "closing" /\ main' = [main EXCEPT ![t] = "off"]
      /\ mem' = [mem EXCEPT ![t] = Applied(@, disk, seen[t], FALSE, Unsaved(t))]
      /\ dirty' = dirty /\ queue' = queue /\ Unwritten /\ Calm
  BY DEF Finish
<1>2. /\ disk' = disk /\ disk'.task = disk.task /\ cleared' = {} /\ missed' = {} /\ clears' = 0
  BY <1>1, Calmly
<1>3. /\ \A u \in Tab : u # t => main[u] = "off"
      /\ main[t] \notin Saving \cup Asking
  BY <1>1, Alone DEF Saving, Asking
<1>4. /\ mem[t] \in Task /\ mem[t] # None /\ mem[t].revision <= disk.task.revision
      /\ mem[t].revision = disk.task.revision => Agree(mem[t], disk.task)
      /\ dirty[t] = disk.task.revision => Agree(mem[t], disk.task)
      /\ dirty[t] \in Nat \cup {Clean}
      /\ dirty[t] # Clean => dirty[t] <= disk.task.revision
      /\ seen[t] \in Nat /\ seen[t] <= disk.revision
  BY KnownTabs
<1>5. /\ TypeOK /\ disk.task \in Task /\ disk.revision \in Nat /\ disk.task.revision \in Nat
  BY Known
<1>6. /\ main'[t] = "off" /\ \A u \in Tab : u # t => main'[u] = main[u]
  BY <1>1, <1>5 DEF TypeOK
<1>7. /\ \A u \in Tab : u # t => mem'[u] = mem[u]
      /\ mem'[t] = Applied(mem[t], disk, seen[t], FALSE, Unsaved(t))
  BY <1>1, <1>5 DEF TypeOK
<1>8. /\ Unsaved(t) => mem'[t] = mem[t]
      /\ ~Unsaved(t) => mem'[t] = disk.task
  <2>1. CASE Unsaved(t)
    BY <2>1, <1>4, <1>7 DEF Applied
  <2>2. CASE ~Unsaved(t)
    <3>1. ~(disk.revision < seen[t])
      BY <1>4, <1>5
    <3>2. Applied(mem[t], disk, seen[t], FALSE, Unsaved(t)) = disk.task
      BY <3>1, <2>2, MeetsStored
    <3> QED BY <3>2, <2>2, <1>7
  <2> QED BY <2>1, <2>2
<1>9. /\ mem'[t] \in Task /\ mem'[t].revision <= disk.task.revision
      /\ mem'[t].revision = disk.task.revision => Agree(mem'[t], disk.task)
      /\ dirty[t] = disk.task.revision => mem'[t] = mem[t]
  BY <1>4, <1>5, <1>8, Itself, Nothing DEF Unsaved
<1>10. Runs(t)'
  BY <1>6 DEF Runs
<1>11. PICK e \in Request : /\ e.tab = t /\ e.by = "main" /\ e.copy = None /\ e.base = 0
  BY Asked
<1> QED BY <1>1, <1>2, <1>3, <1>4, <1>6, <1>7, <1>9, <1>10, <1>11, LockSteps

LEMMA StartFixAgrees ==
    ASSUME Standing, Fitting', Original', NEW t \in Tab, StartFix(t)
    PROVE  Agrees'
<1>1. /\ holder = None /\ dirty' = dirty /\ draft' = draft /\ Unwritten /\ Calm
  BY DEF StartFix
<1>2. /\ disk' = disk /\ disk'.task = disk.task /\ cleared' = {} /\ missed' = {} /\ clears' = 0
  BY <1>1, Calmly
<1>3. /\ \A u \in Tab : u # t => main[u] = "off"
      /\ main[t] \notin Saving \cup Asking
  <2>1. main[t] = "off"
    BY <1>1, Known, Nothing DEF TypeOK
  <2> QED BY <2>1, <1>1, Alone DEF Saving, Asking
<1>4. /\ mem[t] \in Task /\ mem[t].revision <= disk.task.revision
      /\ mem[t].revision = disk.task.revision => Agree(mem[t], disk.task)
      /\ dirty[t] = disk.task.revision => Agree(mem[t], disk.task)
      /\ dirty[t] # Clean => dirty[t] <= disk.task.revision
  BY KnownTabs
<1>5. CASE Unsaved(t)
  <2>1. SaveCopy(t, mem[t], "fixRetry", "unlock") /\ "fixRetry" \in Saving /\ dirty[t] # Clean
    BY <1>5 DEF StartFix, Saving, Unsaved
  <2>2. main'[t] \in {"fixRetry", "unlock"}
    BY <2>1, <1>1, <1>3, <1>4, Known, KnownTabs, CopySaved
  <2>3. Runs(t)'
    BY <2>1, <2>2, <1>1 DEF Runs
  <2> QED BY <2>1, <2>3, <1>1, <1>3, <1>4, CopyAgrees
<1>6. CASE ~Unsaved(t)
  <2>1. /\ main' = [main EXCEPT ![t] = "fix"] /\ mem' = mem /\ queue' = Append(queue, Plain(t, "main"))
    BY <1>6 DEF StartFix
  <2>2. main'[t] = "fix" /\ \A u \in Tab : u # t => main'[u] = main[u]
    BY <2>1, Known DEF TypeOK
  <2>3. Runs(t)'
    BY <2>2 DEF Runs
  <2>4. PICK e \in Request : /\ e = Plain(t, "main") /\ e.tab = t /\ e.by = "main"
                             /\ e.copy = None /\ e.base = 0
    BY Asked
  <2> QED BY <2>1, <2>2, <2>3, <2>4, <1>1, <1>2, <1>3, <1>4, LockSteps
<1> QED BY <1>5, <1>6

LEMMA StartDeleteAgrees ==
    ASSUME Standing, Fitting', Original', NEW t \in Tab, StartDelete(t)
    PROVE  Agrees'
<1>1. /\ holder = None /\ main' = [main EXCEPT ![t] = "delete"] /\ mem' = mem /\ dirty' = dirty
      /\ queue' = Append(queue, Plain(t, "main")) /\ Unwritten /\ Calm
  BY DEF StartDelete
<1>2. /\ disk' = disk /\ disk'.task = disk.task /\ cleared' = {} /\ missed' = {} /\ clears' = 0
  BY <1>1, Calmly
<1>3. /\ \A u \in Tab : u # t => main[u] = "off"
      /\ main[t] \notin Saving \cup Asking
  <2>1. main[t] = "off"
    BY <1>1, Known, Nothing DEF TypeOK
  <2> QED BY <2>1, <1>1, Alone DEF Saving, Asking
<1>4. /\ mem[t] \in Task /\ mem[t].revision <= disk.task.revision
      /\ mem[t].revision = disk.task.revision => Agree(mem[t], disk.task)
      /\ dirty[t] = disk.task.revision => Agree(mem[t], disk.task)
      /\ dirty[t] # Clean => dirty[t] <= disk.task.revision
  BY KnownTabs
<1>5. main'[t] = "delete" /\ \A u \in Tab : u # t => main'[u] = main[u]
  BY <1>1, Known DEF TypeOK
<1>6. Runs(t)'
  BY <1>5 DEF Runs
<1>7. PICK e \in Request : /\ e = Plain(t, "main") /\ e.tab = t /\ e.by = "main"
                           /\ e.copy = None /\ e.base = 0
  BY Asked
<1> QED BY <1>1, <1>2, <1>3, <1>4, <1>5, <1>6, <1>7, LockSteps

LEMMA UnlockAgrees ==
    ASSUME Standing, Fitting', Original', NEW t \in Tab, Unlock(t)
    PROVE  Agrees'
<1>1. /\ main[t] = "unlock" /\ main' = [main EXCEPT ![t] = "off"] /\ mem' = mem /\ dirty' = dirty
      /\ queue' = queue /\ Unwritten /\ Calm
  BY DEF Unlock
<1>2. /\ disk' = disk /\ disk'.task = disk.task /\ cleared' = {} /\ missed' = {} /\ clears' = 0
  BY <1>1, Calmly
<1>3. /\ \A u \in Tab : u # t => main[u] = "off"
      /\ main[t] \notin Saving \cup Asking
  BY <1>1, Alone DEF Saving, Asking
<1>4. /\ mem[t] \in Task /\ mem[t].revision <= disk.task.revision
      /\ mem[t].revision = disk.task.revision => Agree(mem[t], disk.task)
      /\ dirty[t] = disk.task.revision => Agree(mem[t], disk.task)
      /\ dirty[t] # Clean => dirty[t] <= disk.task.revision
  BY KnownTabs
<1>5. main'[t] = "off" /\ \A u \in Tab : u # t => main'[u] = main[u]
  BY <1>1, Known DEF TypeOK
<1>6. Runs(t)'
  BY <1>5 DEF Runs
<1>7. PICK e \in Request : /\ e.tab = t /\ e.by = "main" /\ e.copy = None /\ e.base = 0
  BY Asked
<1> QED BY <1>1, <1>2, <1>3, <1>4, <1>5, <1>6, <1>7, LockSteps

\* A change that fails leaves the lock to be let go.
LEMMA ChangeFailsAgrees ==
    ASSUME Standing, Fitting', Original', NEW t \in Tab, ChangeFails(t)
    PROVE  Agrees'
<1>1. /\ Granted(t, "main", FALSE) /\ Follow(t, "unlock", <<>>)
      /\ mem' = mem /\ dirty' = dirty /\ draft' = draft
  BY DEF ChangeFails
<1>2. /\ disk'.task = disk.task /\ cleared' = {} /\ missed' = {} /\ clears' = 0
  <2>1. Refused(main[t] = "fix" /\ disk.task = None)
    BY DEF ChangeFails
  <2> QED BY <2>1, Known DEF Refused, Unwritten
<1>3. /\ main[t] \in Asking /\ queue' = Tail(queue) /\ main'[t] = "unlock"
      /\ \A u \in Tab : u # t => main'[u] = main[u]
  BY <1>1, Known, FollowsOut
<1>4. \A u \in Tab : u # t => main[u] = "off"
  <2>1. main[t] # "off"
    BY <1>3 DEF Asking
  <2> QED BY <2>1, Alone
<1>5. /\ mem[t] \in Task /\ mem[t].revision <= disk.task.revision
      /\ mem[t].revision = disk.task.revision => Agree(mem[t], disk.task)
      /\ dirty[t] = disk.task.revision => Agree(mem[t], disk.task)
      /\ dirty[t] # Clean => dirty[t] <= disk.task.revision
  BY KnownTabs
<1>6. Runs(t)'
  BY <1>3 DEF Runs
<1>7. queue # <<>> /\ Head(queue).tab = t /\ Head(queue).by = "main"
  BY <1>1 DEF Granted
<1>8. PICK e \in Request : /\ e.tab = t /\ e.by = "main" /\ e.copy = None /\ e.base = 0
  BY Asked
<1> QED BY <1>1, <1>2, <1>3, <1>4, <1>5, <1>6, <1>7, <1>8, LockSteps

\* A worker's save that fails marks the copy unsaved.
LEMMA LastAgrees ==
    ASSUME Standing, Fitting', Original', NEW t \in Tab, SaveFails(t, "main")
    PROVE  Agrees'
<1>1. /\ Granted(t, "main", TRUE)
      /\ dirty' = [dirty EXCEPT ![t] = Head(queue).base]
      /\ NotSaved(t, "main", Head(queue).base)
      /\ mem' = mem
  BY DEF SaveFails
<1>2. /\ disk'.task = disk.task /\ cleared' = {} /\ missed' = {} /\ clears' = 0
  <2>1. Refused(~MayMerge(t, Head(queue)))
    BY DEF SaveFails
  <2> QED BY <2>1, Known DEF Refused, Unwritten
<1>3. /\ queue # <<>> /\ Head(queue) \in Waiting(queue) /\ Head(queue).tab = t
      /\ Head(queue).by = "main" /\ Head(queue).base \in Nat /\ Head(queue).copy # None
      /\ main[t] \in Saving
  BY <1>1, Known, HeadOf
<1>4. /\ Head(queue).base <= disk.task.revision /\ Based(Head(queue))
  BY <1>3, KnownRequests
<1>5. PICK b \in Nat : b = Head(queue).base
  BY <1>3
<1>6. /\ b <= disk.task.revision
      /\ b = disk.task.revision => Agree(mem[t], disk.task)
      /\ dirty[t] = disk.task.revision => b = disk.task.revision
  <2>1. b = disk.task.revision =>
           Agree(Head(queue).copy, disk.task) /\ Same(mem[t], Head(queue).copy)
    BY <1>3, <1>4, <1>5 DEF Based
  <2>2. dirty[t] = disk.task.revision => b = disk.task.revision
    BY <1>3, <1>4, <1>5 DEF Based
  <2> QED BY <2>1, <2>2, <1>4, <1>5, Nearer
<1>7. /\ dirty'[t] = b /\ dirty'[t] # Clean
      /\ \A u \in Tab : u # t => dirty'[u] = dirty[u]
  BY <1>1, <1>5, Known, Nothing DEF TypeOK
<1>8. /\ \A u \in Tab : u # t => main'[u] = main[u]
      /\ main'[t] \in {"last", "unlock", "closing"}
      /\ main'[t] = "last" => main[t] \in {"saving", "keeping"}
      /\ \/ queue' = Tail(queue)
         \/ /\ main'[t] = "last"
            /\ queue' = Append(Tail(queue), Checkpoint(t, "main", mem[t], b))
  <2>1. NotSaved(t, "main", b)
    BY <1>1, <1>5
  <2>2. Held(t) = mem[t]
    BY KnownTabs
  <2> QED BY <2>1, <2>2, <1>1, Known, NotSavedOn
<1>9. \A u \in Tab : u # t => main[u] = "off"
  <2>1. main[t] # "off"
    BY <1>3 DEF Saving
  <2> QED BY <2>1, Alone
<1>10. /\ mem[t] \in Task /\ mem[t].revision <= disk.task.revision
       /\ mem[t].revision = disk.task.revision => Agree(mem[t], disk.task)
       /\ Runs(t)
  BY KnownTabs
<1>11. Runs(t)'
  BY <1>1, <1>2, <1>7, <1>8, <1>10 DEF Runs
<1>12. CASE queue' = Tail(queue)
  <2>1. PICK e \in Request : /\ e.tab = t /\ e.by = "main" /\ e.copy = None /\ e.base = 0
    BY Asked
  <2> QED BY <2>1, <1>1, <1>2, <1>3, <1>6, <1>7, <1>8, <1>9, <1>10, <1>11, <1>12, LockSteps
<1>13. CASE /\ main'[t] = "last"
            /\ queue' = Append(Tail(queue), Checkpoint(t, "main", mem[t], b))
  <2>1. PICK e \in Request : /\ e = Checkpoint(t, "main", mem[t], b)
                             /\ e.tab = t /\ e.by = "main" /\ e.copy = mem[t] /\ e.base = b
    BY <1>7, <1>10, Requests
  <2>2. main'[t] \in Saving
    BY <1>13 DEF Saving
  <2> QED BY <2>1, <2>2, <1>1, <1>2, <1>3, <1>6, <1>7, <1>8,
              <1>9, <1>10, <1>11, <1>13, LockSteps, SMTT(20)
<1> QED BY <1>8, <1>12, <1>13

-----------------------------------------------------------------------------
(* Editors, and tabs that meet what is stored.                             *)

\* Tab t keeps its copy or meets the stored task; e is what its editor asks for.
LEMMA EditSteps ==
    ASSUME Standing, Fitting', Original', NEW t \in Tab,
           disk'.task = disk.task, cleared' = {} /\ missed' = {}, clears' = 0, dirty' = dirty, main' = main,
           \A u \in Tab : u # t => mem'[u] = mem[u],
           mem'[t] \in Task, mem'[t].revision <= disk.task.revision,
           mem'[t].revision = disk.task.revision => Agree(mem'[t], disk.task),
           dirty[t] # Clean => mem'[t] = mem[t],
           main[t] \in Working => Alike(mem'[t], mem[t]),
           Near(mem[t], disk.task) => Near(mem'[t], disk.task),
           main[t] \in Working /\ Agree(mem[t], disk.task) => Same(mem'[t], mem[t]),
           NEW e \in Request, e.by = "editor", e.tab = t,
           \/ e.copy = None /\ e.base = 0
           \/ e.copy = mem[t] /\ e.base = dirty[t] /\ dirty[t] # Clean,
           \A r \in Waiting(queue') : r \in Waiting(queue) \/ r = e,
           \A r, s \in Waiting(queue') : <<r, s>> \in Before(queue') =>
                 <<r, s>> \in Before(queue) \/ (r \in Waiting(queue) /\ s = e)
    PROVE  Agrees'
<1>1. /\ disk.task.revision \in Nat /\ dirty[t] \in Nat \cup {Clean} /\ Clean \notin Nat
      /\ mem[t] \in Task
      /\ dirty[t] # Clean => dirty[t] <= disk.task.revision
      /\ dirty[t] = disk.task.revision => Agree(mem[t], disk.task)
      /\ Runs(t) /\ QueueAgrees /\ RunAgrees /\ queue \in Seq(Request)
  BY Known, KnownTabs DEF TypeOK
<1>2. \A r \in Waiting(queue)' : r.base <= disk.task.revision
  <2>1. \A r \in Waiting(queue) : r.base <= disk.task.revision
    BY KnownRequests
  <2>2. e.base <= disk.task.revision
    BY <1>1
  <2> QED BY <2>1, <2>2
<1>3. Runs(t)'
  BY <1>1 DEF Runs, Alike, Working
<1>4. ASSUME NEW r \in Waiting(queue), r.copy # None
      PROVE  Based(r)' /\ Unbased(r)'
  <2>1. Based(r) /\ Unbased(r) /\ r.tab \in Tab /\ r.by \in {"main", "editor"} /\ Fits(r)
    BY <1>4, KnownRequests
  <2>2. CASE r.tab # t
    BY <2>1, <2>2, OfOthers
  <2>3. CASE r.tab = t
    <3>1. ASSUME r.base = disk.task.revision PROVE Same(mem'[t], r.copy)
      <4>1. Agree(r.copy, disk.task) /\ Same(mem[t], r.copy)
        BY <3>1, <2>1, <2>3 DEF Based
      <4>2. CASE dirty[t] # Clean
        BY <4>1, <4>2
      <4>3. CASE dirty[t] = Clean
        <5>1. r.by = "main" /\ main[t] \notin {"retry", "fixRetry"}
          BY <3>1, <4>3, <2>1, <2>3, <1>1 DEF Based
        <5>2. main[t] \in Working
          BY <5>1, <2>1, <2>3, <1>4 DEF Fits, Saving, Working
        <5>3. Agree(mem[t], disk.task)
          BY <4>1, Nearer
        <5> QED BY <4>1, <5>2, <5>3, Chains
      <4> QED BY <4>2, <4>3
    <3>2. Based(r)'
      BY <3>1, <2>1, <2>3 DEF Based
    <3>3. ASSUME main[t] \in Working \/ dirty[t] # Clean, r.by = "main"
          PROVE  Alike(mem'[t], r.copy)
      <4>1. Alike(mem[t], r.copy)
        BY <3>3, <2>1, <2>3 DEF Unbased
      <4>2. CASE dirty[t] # Clean
        BY <4>1, <4>2
      <4>3. CASE main[t] \in Working
        BY <4>1, <4>3, Chains
      <4> QED BY <3>3, <4>2, <4>3
    <3>4. Unbased(r)'
      BY <3>3, <2>1, <2>3 DEF Unbased
    <3> QED BY <3>2, <3>4
  <2> QED BY <2>2, <2>3
<1>5. ASSUME e.copy # None
      PROVE  Based(e)' /\ Unbased(e)'
  <2>1. e.copy = mem[t] /\ mem'[t] = mem[t] /\ e.base = dirty[t] /\ dirty[t] # Clean
    BY <1>5
  <2>2. Same(mem[t], mem[t])
    BY <1>1, Itself
  <2>3. Based(e)'
    BY <2>1, <2>2, <1>1 DEF Based
  <2>4. Unbased(e)'
    BY <2>1 DEF Unbased
  <2> QED BY <2>3, <2>4
<1>6. ASSUME NEW r \in Waiting(queue)', NEW s \in Waiting(queue)', <<r, s>> \in Before(queue)'
      PROVE  InOrder(r, s)'
  <2>1. CASE <<r, s>> \in Before(queue)
    <3>1. r \in Waiting(queue) /\ s \in Waiting(queue)
      BY <2>1, <1>1, WaitingRequests
    <3>2. InOrder(r, s)
      BY <3>1, <2>1, <1>1 DEF QueueAgrees
    <3> QED BY <3>2 DEF InOrder
  <2>2. CASE r \in Waiting(queue) /\ s = e
    <3>1. ASSUME e.copy # None, r.by = "main", r.tab = t, r.copy # None
          PROVE  Alike(r.copy, e.copy)
      <4>1. Unbased(r) /\ e.copy = mem[t] /\ dirty[t] # Clean
        BY <3>1, <2>2, KnownRequests
      <4>2. Alike(mem[t], r.copy)
        BY <4>1, <3>1 DEF Unbased
      <4> QED BY <4>1, <4>2, Nearer
    <3>2. e.copy # None => dirty[t] # Clean
      OBVIOUS
    <3> QED BY <3>1, <3>2, <2>2 DEF InOrder
  <2> QED BY <2>1, <2>2, <1>6
<1>7. QueueAgrees'
  BY <1>4, <1>5, <1>6 DEF QueueAgrees
<1>8. \A u \in Tab : main[u] \in {"sent", "keeping"} => \A v \in Tab : dirty[v] # disk.task.revision
  BY <1>1 DEF RunAgrees
<1>9. mem'[t] # None
  BY Nothing
<1>10. dirty[t] = disk.task.revision => Agree(mem'[t], disk.task)
  BY <1>1
<1> QED BY <1>1, <1>2, <1>3, <1>7, <1>8, <1>9, <1>10, SameTask

\* What a copy becomes when its tab meets the same task again.
LEMMA MeetsAgain ==
    ASSUME Standing, NEW t \in Tab, NEW d, d.task = disk.task, d.revision \in Nat,
           disk.revision <= d.revision,
           NEW n, n = Applied(mem[t], d, seen[t], main[t] \in Working, Unsaved(t))
    PROVE  /\ n \in Task /\ n.revision <= disk.task.revision
           /\ n.revision = disk.task.revision => Agree(n, disk.task)
           /\ dirty[t] # Clean => n = mem[t]
           /\ main[t] \in Working => Alike(n, mem[t])
           /\ Near(mem[t], disk.task) => Near(n, disk.task)
           /\ main[t] \in Working /\ Agree(mem[t], disk.task) => Same(n, mem[t])
<1>1. /\ mem[t] \in Task /\ mem[t] # None /\ mem[t].revision <= disk.task.revision
      /\ mem[t].revision = disk.task.revision => Agree(mem[t], disk.task)
      /\ seen[t] \in Nat /\ seen[t] <= disk.revision
  BY KnownTabs
<1>2. /\ disk.task \in Task /\ Valid(disk.task) /\ disk.task.revision \in Nat /\ disk.revision \in Nat
      /\ disk.task # None
  BY Known
<1>3. ~(d.revision < seen[t])
  BY <1>1, <1>2
<1>4. CASE dirty[t] # Clean
  <2>1. n = mem[t]
    BY <1>1, <1>4 DEF Applied, Unsaved
  <2>2. Alike(n, mem[t]) /\ Same(n, mem[t])
    BY <2>1, <1>1, Itself
  <2> QED BY <2>1, <2>2, <1>1
<1>5. CASE dirty[t] = Clean /\ main[t] \in Working
  <2>1. n = Taken(mem[t], disk.task)
    BY <1>1, <1>2, <1>3, <1>5 DEF Applied, Unsaved, Taken
  <2>2. /\ Taken(mem[t], disk.task) \in Task
        /\ Taken(mem[t], disk.task).revision = disk.task.revision
        /\ Alike(Taken(mem[t], disk.task), mem[t])
        /\ Near(mem[t], disk.task) => Agree(Taken(mem[t], disk.task), disk.task)
        /\ Agree(mem[t], disk.task) => Same(Taken(mem[t], disk.task), mem[t])
    BY <1>1, <1>2, TakesOver, Zenon
  <2>3. Near(mem[t], disk.task)
    BY <1>5, KnownTabs DEF Runs, Working
  <2> QED BY <2>1, <2>2, <2>3, <1>2, <1>5, Nearer
<1>6. CASE dirty[t] = Clean /\ main[t] \notin Working
  <2>1. n = disk.task
    BY <1>2, <1>3, <1>6 DEF Applied, Unsaved
  <2>2. Agree(disk.task, disk.task) /\ Near(disk.task, disk.task)
    BY <1>2, Itself
  <2> QED BY <2>1, <2>2, <1>2, <1>6
<1> QED BY <1>1, <1>4, <1>5, <1>6, KnownTabs

\* The request of a correction.
LEMMA AskedByEditor ==
    ASSUME NEW t \in Tab
    PROVE  /\ Plain(t, "editor") \in Request
           /\ Plain(t, "editor").tab = t /\ Plain(t, "editor").by = "editor"
           /\ Plain(t, "editor").copy = None /\ Plain(t, "editor").base = 0
<1>1. Plain(t, "editor") = [tab |-> t, by |-> "editor", copy |-> None, base |-> 0]
  BY DEF Plain
<1> QED BY <1>1 DEF Request

\* The tab applies a workspace with the same task, and nothing joins the queue.
LEMMA MeetSteps ==
    ASSUME Standing, Fitting', Original', NEW t \in Tab,
           cleared' = {} /\ missed' = {}, clears' = 0, dirty' = dirty, main' = main,
           NEW d, d.task = disk.task, d.revision \in Nat, disk.revision <= d.revision,
           disk'.task = disk.task,
           \A u \in Tab : u # t => mem'[u] = mem[u],
           mem'[t] = Applied(mem[t], d, seen[t], main[t] \in Working, Unsaved(t)),
           queue' = queue \/ (queue # <<>> /\ queue' = Tail(queue))
    PROVE  Agrees'
<1>1. PICK n : n = Applied(mem[t], d, seen[t], main[t] \in Working, Unsaved(t))
  OBVIOUS
<1>2. /\ n \in Task /\ n.revision <= disk.task.revision
      /\ n.revision = disk.task.revision => Agree(n, disk.task)
      /\ dirty[t] # Clean => n = mem[t]
      /\ main[t] \in Working => Alike(n, mem[t])
      /\ Near(mem[t], disk.task) => Near(n, disk.task)
      /\ main[t] \in Working /\ Agree(mem[t], disk.task) => Same(n, mem[t])
  BY <1>1, MeetsAgain
<1>3. mem'[t] = n
  BY <1>1
<1>4. /\ \A r \in Waiting(queue') : r \in Waiting(queue)
      /\ \A r, s \in Waiting(queue') : <<r, s>> \in Before(queue') => <<r, s>> \in Before(queue)
  <2>1. queue \in Seq(Request)
    BY Known DEF TypeOK
  <2>2. CASE queue # <<>> /\ queue' = Tail(queue)
    BY <2>1, <2>2, Leaves, Zenon
  <2> QED BY <2>2
<1>5. PICK e \in Request : /\ e.tab = t /\ e.by = "editor" /\ e.copy = None /\ e.base = 0
  BY AskedByEditor
<1> QED BY <1>2, <1>3, <1>4, <1>5, EditSteps

LEMMA RejectDraftAgrees ==
    ASSUME Standing, Fitting', Original', NEW t \in Tab, RejectDraft(t)
    PROVE  Agrees'
<1>1. /\ Granted(t, "editor", FALSE)
      /\ ApplySince(t, disk, seen[t], main[t] \in Working, Unsaved(t))
      /\ queue' = Tail(queue) /\ dirty' = dirty /\ main' = main
  BY Zenon DEF RejectDraft, Apply
<1>2. /\ disk'.task = disk.task /\ cleared' = {} /\ missed' = {} /\ clears' = 0
  <2>1. Refused(~MayCorrect(draft[t]))
    BY DEF RejectDraft
  <2> QED BY <2>1, Known DEF Refused, Unwritten
<1>3. /\ TypeOK /\ RunFits /\ disk.revision \in Nat /\ disk.task \in Task \cup {None} /\ Valid(disk.task)
  BY Known
<1>4. /\ \A u \in Tab : u # t => mem'[u] = mem[u]
      /\ mem'[t] = Applied(mem[t], disk, seen[t], main[t] \in Working, Unsaved(t))
  BY <1>1, <1>3, KnownTabs, Heeds
<1>5. queue # <<>>
  BY <1>1 DEF Granted
<1>6. PICK d : d = disk
  OBVIOUS
<1>7. mem'[t] = Applied(mem[t], d, seen[t], main[t] \in Working, Unsaved(t))
  BY <1>4, <1>6
<1> QED BY <1>1, <1>2, <1>3, <1>4, <1>5, <1>6, <1>7, MeetSteps

LEMMA WriteOtherAgrees ==
    ASSUME Standing, Fitting', Original', NEW t \in Tab, WriteOther(t)
    PROVE  Agrees'
<1>1. /\ disk' = [disk EXCEPT !.revision = @ + 1]
      /\ ApplySince(t, disk', seen[t], main[t] \in Working, Unsaved(t))
      /\ queue' = queue /\ dirty' = dirty /\ main' = main /\ Calm
  BY Zenon DEF WriteOther, Apply
<1>2. /\ TypeOK /\ RunFits /\ disk.revision \in Nat /\ disk.task \in Task \cup {None} /\ Valid(disk.task)
      /\ cleared' = {} /\ missed' = {} /\ clears' = 0
  BY <1>1, Known DEF Calm
<1>3. PICK d : d = disk'
  OBVIOUS
<1>4. d.revision = disk.revision + 1 /\ d.task = disk.task
  BY <1>1, <1>2, <1>3 DEF TypeOK
<1>5. ApplySince(t, d, seen[t], main[t] \in Working, Unsaved(t))
  BY <1>1, <1>3
<1>6. /\ \A u \in Tab : u # t => mem'[u] = mem[u]
      /\ mem'[t] = Applied(mem[t], d, seen[t], main[t] \in Working, Unsaved(t))
  BY <1>2, <1>4, <1>5, KnownTabs, Heeds
<1>7. d.revision \in Nat /\ disk.revision <= d.revision /\ disk'.task = disk.task
  BY <1>2, <1>3, <1>4
<1> QED BY <1>1, <1>2, <1>4, <1>6, <1>7, MeetSteps

LEMMA RefreshAgrees ==
    ASSUME Standing, Fitting', Original', NEW t \in Tab, Refresh(t)
    PROVE  Agrees'
<1>1. /\ ApplySince(t, disk, seen[t], main[t] \in Working, Unsaved(t))
      /\ queue' = queue /\ dirty' = dirty /\ main' = main /\ Unwritten /\ Calm
  BY Zenon DEF Refresh, Apply
<1>2. /\ disk'.task = disk.task /\ cleared' = {} /\ missed' = {} /\ clears' = 0
      /\ TypeOK /\ RunFits /\ disk.revision \in Nat /\ disk.task \in Task \cup {None} /\ Valid(disk.task)
  BY <1>1, Calmly, Known
<1>3. /\ \A u \in Tab : u # t => mem'[u] = mem[u]
      /\ mem'[t] = Applied(mem[t], disk, seen[t], main[t] \in Working, Unsaved(t))
  BY <1>1, <1>2, KnownTabs, Heeds
<1>4. PICK d : d = disk
  OBVIOUS
<1>5. mem'[t] = Applied(mem[t], d, seen[t], main[t] \in Working, Unsaved(t))
  BY <1>3, <1>4
<1> QED BY <1>1, <1>2, <1>3, <1>4, <1>5, MeetSteps

\* Nor does the question who is at work.
LEMMA AskHeldAgrees ==
    ASSUME Standing, Fitting', Original', NEW t \in Tab, AskHeld(t) \/ ForgoClear(t)
    PROVE  Agrees'
<1>1. /\ mem' = mem /\ dirty' = dirty /\ main' = main /\ queue' = queue /\ Unwritten
      /\ cleared' = cleared /\ missed' = missed /\ clears' = clears
  BY DEF AskHeld, ForgoClear
<1>2. /\ disk'.task = disk.task /\ cleared' = {} /\ missed' = {} /\ clears' = 0
  BY <1>1, Known DEF Unwritten
<1>3. /\ mem[t] \in Task /\ mem[t].revision <= disk.task.revision
      /\ mem[t].revision = disk.task.revision => Agree(mem[t], disk.task)
  BY KnownTabs
<1>4. Alike(mem[t], mem[t]) /\ Same(mem[t], mem[t])
  BY <1>3, Itself
<1>5. PICK e \in Request : /\ e.tab = t /\ e.by = "editor" /\ e.copy = None /\ e.base = 0
  BY AskedByEditor
<1> QED BY <1>1, <1>2, <1>3, <1>4, <1>5, EditSteps

\* An editor takes a step, and may ask to save the copy or its text.
LEMMA DraftSteps ==
    ASSUME Standing, Fitting', Original', NEW t \in Tab,
           mem' = mem, dirty' = dirty, main' = main, Unwritten, Calm,
           NEW e \in Request, e.by = "editor", e.tab = t,
           \/ e.copy = None /\ e.base = 0
           \/ e.copy = mem[t] /\ e.base = dirty[t] /\ dirty[t] # Clean,
           queue' = queue \/ queue' = Append(queue, e)
    PROVE  Agrees'
<1>1. /\ disk'.task = disk.task /\ cleared' = {} /\ missed' = {} /\ clears' = 0
  BY Calmly
<1>2. /\ mem[t] \in Task /\ mem[t].revision <= disk.task.revision
      /\ mem[t].revision = disk.task.revision => Agree(mem[t], disk.task)
  BY KnownTabs
<1>3. Alike(mem[t], mem[t]) /\ Same(mem[t], mem[t])
  BY <1>2, Itself
<1>4. /\ \A r \in Waiting(queue') : r \in Waiting(queue) \/ r = e
      /\ \A r, s \in Waiting(queue') : <<r, s>> \in Before(queue') =>
            <<r, s>> \in Before(queue) \/ (r \in Waiting(queue) /\ s = e)
  <2>1. queue \in Seq(Request)
    BY Known DEF TypeOK
  <2>2. CASE queue' = Append(queue, e)
    BY <2>1, <2>2, Joins, Zenon
  <2> QED BY <2>2
<1> QED BY <1>1, <1>2, <1>3, <1>4, EditSteps

LEMMA SaveDraftAgrees ==
    ASSUME Standing, Fitting', Original', NEW t \in Tab, SaveDraft(t)
    PROVE  Agrees'
<1>1. /\ mem' = mem /\ dirty' = dirty /\ main' = main /\ Unwritten /\ Calm
  BY DEF SaveDraft
<1>2. /\ mem[t] \in Task /\ mem[t] # None /\ dirty[t] \in Nat \cup {Clean} /\ Clean \notin Nat
  BY KnownTabs
<1>3. CASE ~Unsaved(t)
  <2>1. queue' = Append(queue, Plain(t, "editor"))
    BY <1>3 DEF SaveDraft
  <2>2. PICK e \in Request : /\ e = Plain(t, "editor") /\ e.tab = t /\ e.by = "editor"
                             /\ e.copy = None /\ e.base = 0
    BY AskedByEditor
  <2> QED BY <2>1, <2>2, <1>1, DraftSteps
<1>4. CASE Unsaved(t)
  <2>1. dirty[t] # Clean /\ (queue' = queue \/ queue' = Append(queue, Checkpoint(t, "editor", mem[t], dirty[t])))
    BY <1>2, <1>4 DEF SaveDraft, Unsaved
  <2>2. PICK e \in Request : /\ e = Checkpoint(t, "editor", mem[t], dirty[t])
                             /\ e.tab = t /\ e.by = "editor"
                             /\ e.copy = mem[t] /\ e.base = dirty[t]
    BY <2>1, <1>2, Requests
  <2> QED BY <2>1, <2>2, <1>1, DraftSteps
<1> QED BY <1>3, <1>4

\* Typing, insisting and dropping the text change nothing else.
LEMMA TypingAgrees ==
    ASSUME Standing, Fitting', Original', NEW t \in Tab,
           (\E c \in Cue, v \in Text : Type(t, c, v)) \/ KeepMine(t) \/ DropDraft(t)
    PROVE  Agrees'
<1>1. /\ mem' = mem /\ dirty' = dirty /\ main' = main /\ queue' = queue /\ Unwritten /\ Calm
  BY DEF Type, KeepMine, DropDraft
<1>2. PICK e \in Request : /\ e.tab = t /\ e.by = "editor" /\ e.copy = None /\ e.base = 0
  BY AskedByEditor
<1> QED BY <1>1, <1>2, DraftSteps

\* What an editor fails to save is unsaved, as it may have been all along.
LEMMA RetryAgrees ==
    ASSUME Standing, Fitting', Original', NEW t \in Tab, SaveFails(t, "editor")
    PROVE  Agrees'
<1>1. /\ Granted(t, "editor", TRUE)
      /\ dirty' = [dirty EXCEPT ![t] = Head(queue).base]
      /\ NotSaved(t, "editor", Head(queue).base)
      /\ mem' = mem
  BY DEF SaveFails
<1>2. /\ disk'.task = disk.task /\ cleared' = {} /\ missed' = {} /\ clears' = 0
  <2>1. Refused(~MayMerge(t, Head(queue)))
    BY DEF SaveFails
  <2> QED BY <2>1, Known DEF Refused, Unwritten
<1>3. /\ queue # <<>> /\ Head(queue) \in Waiting(queue) /\ Head(queue).tab = t
      /\ Head(queue).by = "editor" /\ Head(queue).base \in Nat /\ Head(queue).copy # None
  BY <1>1, Known, HeadOf
<1>4. /\ Head(queue).base <= disk.task.revision /\ Based(Head(queue)) /\ Unbased(Head(queue))
  BY <1>3, KnownRequests
<1>5. PICK b \in Nat : b = Head(queue).base
  BY <1>3
<1>6. /\ b <= disk.task.revision
      /\ b = disk.task.revision => dirty[t] = disk.task.revision
      /\ dirty[t] = Clean => main[t] \notin {"retry", "fixRetry"}
  BY <1>3, <1>4, <1>5 DEF Based, Unbased
<1>7. /\ dirty'[t] = b /\ dirty'[t] # Clean
      /\ \A u \in Tab : u # t => dirty'[u] = dirty[u]
  BY <1>1, <1>5, Known, Nothing DEF TypeOK
<1>8. main' = main /\ queue' = Tail(queue)
  BY <1>1 DEF NotSaved
<1>9. /\ mem[t] # None /\ mem[t].revision <= disk.task.revision
      /\ mem[t].revision = disk.task.revision => Agree(mem[t], disk.task)
      /\ dirty[t] = disk.task.revision => Agree(mem[t], disk.task)
      /\ Runs(t)
  BY KnownTabs
<1>10. Runs(t)'
  BY <1>1, <1>2, <1>7, <1>8, <1>9 DEF Runs
<1>11. \A u \in Tab : main[u] \in {"sent", "keeping"} => \A v \in Tab : dirty[v] # disk.task.revision
  BY Known DEF RunAgrees
<1>12. /\ main'[t] \in {"sent", "keeping"} => \A v \in Tab : dirty'[v] # disk.task.revision
       /\ dirty'[t] = disk.task.revision => \A u \in Tab : main'[u] \notin {"sent", "keeping"}
  BY <1>6, <1>7, <1>8, <1>11
<1>13. /\ queue \in Seq(Request) /\ QueueAgrees /\ QueueFits
  BY Known DEF TypeOK
<1>14. /\ \A r \in Waiting(queue') : r \in Waiting(queue) /\ <<Head(queue), r>> \in Before(queue)
       /\ \A r, s \in Waiting(queue') : <<r, s>> \in Before(queue') => <<r, s>> \in Before(queue)
  BY <1>3, <1>8, <1>13, Leaves, Zenon
<1>15. \A r \in Waiting(queue)' : r.base <= disk.task.revision
  BY <1>14, KnownRequests
<1>16. ASSUME NEW r \in Waiting(queue'), r.copy # None
       PROVE  Based(r)' /\ Unbased(r)'
  <2>1. r \in Waiting(queue) /\ <<Head(queue), r>> \in Before(queue)
    BY <1>14, <1>16
  <2>2. /\ Based(r) /\ Unbased(r) /\ r.tab \in Tab /\ r.by \in {"main", "editor"} /\ Fits(r)
    BY <2>1, <1>16, KnownRequests
  <2>3. CASE r.tab # t
    BY <2>2, <2>3, <1>1, <1>2, <1>7, <1>8, OfOthers
  <2>4. CASE r.tab = t
    <3>1. r.by = "main"
      BY <2>1, <2>2, <2>4, <1>3, <1>13 DEF QueueFits, Apart
    <3>2. main[t] \in Saving
      BY <3>1, <2>2, <2>4, <1>16 DEF Fits
    <3>3. Based(r)'
      BY <3>1, <2>2, <2>4, <1>1, <1>2, <1>6, <1>7, <1>8 DEF Based
    <3>4. Alike(mem[t], r.copy)
      BY <3>1, <3>2, <2>2, <2>4, <1>6 DEF Unbased, Saving, Working
    <3>5. Unbased(r)'
      BY <3>1, <3>4, <2>4, <1>1, <1>7 DEF Unbased
    <3> QED BY <3>3, <3>5
  <2> QED BY <2>3, <2>4
<1>17. ASSUME NEW r \in Waiting(queue'), NEW s \in Waiting(queue'), <<r, s>> \in Before(queue')
       PROVE  InOrder(r, s)'
  <2>1. InOrder(r, s) /\ s.tab \in Tab
    BY <1>13, <1>14, <1>17, KnownRequests DEF QueueAgrees
  <2> QED BY <2>1, <1>7, <1>8 DEF InOrder
<1>18. QueueAgrees'
  BY <1>16, <1>17 DEF QueueAgrees
<1>19. dirty'[t] = disk.task.revision => Agree(mem'[t], disk.task)
  BY <1>1, <1>6, <1>7, <1>9
<1> QED BY <1>1, <1>2, <1>6, <1>7, <1>8, <1>9, <1>10, <1>12, <1>15, <1>18, <1>19, SameTask

\* A tab that is opened again has what is stored.
LEMMA ReloadAgrees ==
    ASSUME Standing, Fitting', Original', NEW t \in Tab, Reload(t)
    PROVE  Agrees'
<1>1. /\ mem' = [mem EXCEPT ![t] = disk.task]
      /\ dirty' = [dirty EXCEPT ![t] = Clean]
      /\ main' = [main EXCEPT ![t] = "off"]
      /\ cleared' = cleared \ {t} /\ missed' = missed \ {t} /\ clears' = clears /\ disk' = disk
      /\ queue' = Withdrawn(Withdrawn(queue, t, "main"), t, "editor")
  BY DEF Reload, Unwritten
<1>2. /\ disk'.task = disk.task /\ cleared' = {} /\ missed' = {} /\ clears' = 0
      /\ TypeOK /\ QueueFits /\ QueueAgrees
      /\ disk.task \in Task /\ disk.task # None /\ disk.task.revision \in Nat
  BY <1>1, Known
<1>3. /\ mem'[t] = disk.task /\ dirty'[t] = Clean /\ main'[t] = "off"
      /\ \A u \in Tab : u # t => mem'[u] = mem[u] /\ dirty'[u] = dirty[u] /\ main'[u] = main[u]
  BY <1>1, <1>2 DEF TypeOK
<1>4. /\ \A r \in Waiting(queue') : r \in Waiting(queue) /\ r.tab # t
      /\ \A r, s \in Waiting(queue') : <<r, s>> \in Before(queue') => <<r, s>> \in Before(queue)
  BY <1>1, <1>2, Withdrawals
<1>5. Runs(t)'
  BY <1>3 DEF Runs
<1>6. ASSUME NEW r \in Waiting(queue'), r.copy # None
      PROVE  Based(r)' /\ Unbased(r)'
  <2>1. Based(r) /\ Unbased(r) /\ r.tab \in Tab /\ r.tab # t
    BY <1>4, <1>6, KnownRequests
  <2> QED BY <2>1, <1>2, <1>3, OfOthers
<1>7. ASSUME NEW r \in Waiting(queue'), NEW s \in Waiting(queue'), <<r, s>> \in Before(queue')
      PROVE  InOrder(r, s)'
  <2>1. InOrder(r, s) /\ r.tab \in Tab /\ s.tab \in Tab /\ r.tab # t /\ s.tab # t
    BY <1>2, <1>4, <1>7, KnownRequests DEF QueueAgrees
  <2> QED BY <2>1, <1>3 DEF InOrder
<1>8. QueueAgrees'
  BY <1>6, <1>7 DEF QueueAgrees
<1>9. \A r \in Waiting(queue)' : r.base <= disk.task.revision
  BY <1>4, KnownRequests
<1>10. Agree(disk.task, disk.task) /\ dirty'[t] # disk.task.revision
  BY <1>2, <1>3, Itself, Nothing
<1> QED BY <1>2, <1>3, <1>5, <1>8, <1>9, <1>10, SameTask

-----------------------------------------------------------------------------
(* The steps that write the task.                                          *)

\* Tab t stores the task k.  The older copies and requests are not based on it.
LEMMA NextTask ==
    ASSUME Standing, Fitting', Original', NEW t \in Tab, NEW k \in Task, disk'.task = k,
           k.revision = disk.task.revision + 1, cleared' = {} /\ missed' = {}, clears' = 0,
           \A u \in Tab : u # t => mem'[u] = mem[u] /\ dirty'[u] = dirty[u],
           mem'[t] \in Task, mem'[t].revision <= k.revision,
           mem'[t].revision = k.revision => Agree(mem'[t], k),
           dirty'[t] = Clean \/ dirty'[t] = dirty[t],
           \A u \in Tab : Runs(u)',
           \A r \in Waiting(queue') : r \in Waiting(queue) \/ (r.copy = None /\ r.base = 0),
           \A r \in Waiting(queue') : r.copy # None => Unbased(r)',
           \A r, s \in Waiting(queue') : <<r, s>> \in Before(queue') => InOrder(r, s)'
    PROVE  Agrees'
<1>1. /\ disk.task.revision \in Nat /\ k.revision \in Nat /\ Young
  BY Known DEF Task
<1>2. \A u \in Tab : /\ mem[u].revision <= disk.task.revision /\ mem[u].revision \in Nat
                     /\ dirty[u] \in Nat \cup {Clean} /\ Clean \notin Nat
                     /\ dirty[u] # Clean => dirty[u] <= disk.task.revision
  BY KnownTabs
<1>3. \A u \in Tab : /\ dirty'[u] # Clean => dirty'[u] <= k.revision
                     /\ dirty'[u] # k.revision
  <2>1. \A u \in Tab : dirty'[u] = Clean \/ dirty'[u] = dirty[u]
    OBVIOUS
  <2> QED BY <2>1, <1>1, <1>2
<1>4. \A u \in Tab : /\ mem'[u].revision <= k.revision
                     /\ mem'[u].revision = k.revision => Agree(mem'[u], k)
  BY <1>1, <1>2
<1>5. \A r \in Waiting(queue') : /\ r.base <= k.revision
                                 /\ r.copy # None => r.base # k.revision /\ r.tab \in Tab
  <2>1. \A r \in Waiting(queue) : r.base \in Nat /\ r.base <= disk.task.revision /\ r.tab \in Tab
    BY KnownRequests
  <2> QED BY <2>1, <1>1
<1>6. Young'
  BY <1>1, Nothing DEF Young, Fitting, NeverAhead
<1>7. Behind'
  BY <1>3, <1>4, <1>5 DEF Behind
<1>8. CopiesAgree'
  BY <1>3, <1>4 DEF CopiesAgree
<1>9. RunAgrees'
  BY <1>3 DEF RunAgrees
<1>10. \A r \in Waiting(queue)' : r.copy # None => Based(r)'
  BY <1>3, <1>5 DEF Based
<1>11. QueueAgrees'
  BY <1>10 DEF QueueAgrees
<1> QED BY <1>6, <1>7, <1>8, <1>9, <1>11 DEF Agrees

\* New settings are stored while no run is under way.
LEMMA FixAgrees ==
    ASSUME Standing, Fitting', Original', NEW t \in Tab, Fix(t)
    PROVE  Agrees'
<1>1. TypeOK /\ QueueFits /\ QueueAgrees /\ disk.revision \in Nat /\ disk.task.revision \in Nat
  BY Known
<1>2. PICK k \in Task : /\ Valid(k) /\ k.revision = disk.task.revision + 1
                        /\ disk'.revision = disk.revision + 1 /\ disk'.task = k
  BY <1>1, FixWrites
<1>3. /\ Granted(t, "main", FALSE) /\ main[t] = "fix"
      /\ Apply(t, disk', FALSE, Unsaved(t)) /\ Follow(t, "unlock", <<>>)
      /\ dirty' = dirty /\ draft' = draft /\ cleared' = {} /\ missed' = {} /\ clears' = 0
  BY Known, Zenon DEF Fix, Calm
<1>4. /\ queue' = Tail(queue) /\ main'[t] = "unlock"
      /\ \A u \in Tab : u # t => main'[u] = main[u]
  BY <1>1, <1>3, FollowsOut
<1>5. \A u \in Tab : u # t => main[u] = "off"
  BY <1>3, Alone
<1>6. \A u \in Tab : Runs(u)'
  BY <1>4, <1>5 DEF Runs
<1>7. PICK d : d = disk'
  OBVIOUS
<1>8. d.revision \in Nat /\ d.task \in Task \cup {None} /\ Valid(d.task) /\ d.task = k
      /\ disk.revision <= d.revision
  BY <1>1, <1>2, <1>7
<1>9. /\ \A u \in Tab : u # t => mem'[u] = mem[u]
      /\ mem'[t] = Applied(mem[t], d, seen[t], FALSE, Unsaved(t))
  <2>1. PICK works, unsaved : works = FALSE /\ unsaved = Unsaved(t)
    OBVIOUS
  <2>2. ApplySince(t, d, seen[t], works, unsaved) /\ seen[t] \in Nat
    BY <2>1, <1>1, <1>3, <1>7, TypedTabs DEF Apply
  <2>3. mem'[t] = Applied(mem[t], d, seen[t], works, unsaved) /\ \A u \in Tab : u # t => mem'[u] = mem[u]
    BY <2>2, <1>1, <1>8, Applies
  <2> QED BY <2>1, <2>3
<1>10. /\ mem[t] \in Task /\ mem[t] # None /\ mem[t].revision \in Nat
       /\ mem[t].revision <= disk.task.revision
       /\ seen[t] \in Nat /\ seen[t] <= disk.revision
  BY KnownTabs
<1>11. mem'[t] = mem[t] \/ mem'[t] = k
  BY <1>8, <1>9 DEF Applied
<1>12. /\ mem'[t] \in Task /\ mem'[t].revision <= k.revision
       /\ mem'[t].revision = k.revision => Agree(mem'[t], k)
  <2>1. Agree(k, k) /\ k.revision \in Nat
    BY Itself DEF Task
  <2> QED BY <2>1, <1>1, <1>2, <1>10, <1>11
<1>13. /\ queue # <<>> /\ Head(queue).tab = t /\ Head(queue).by = "main" /\ Head(queue).copy = None
       /\ Head(queue) \in Waiting(queue) /\ queue \in Seq(Request)
  BY <1>1, <1>3, HeadOf DEF Granted
<1>14. PICK e \in Request : /\ e = Plain(t, "main") /\ e.tab = t /\ e.by = "main"
                            /\ e.copy = None /\ e.base = 0
  BY Asked
<1>15. /\ \A r \in Waiting(queue') : r \in Waiting(queue) /\ <<Head(queue), r>> \in Before(queue)
  BY <1>4, <1>13, Leaves, Zenon
<1>16. \A r \in Waiting(queue') : r = e \/ r.by = "editor"
  BY <1>4, <1>5, <1>13, <1>14, LockQueue
<1>17. \A r \in Waiting(queue') : r.copy # None => r.by = "editor"
  BY <1>14, <1>16
<1>18. ASSUME NEW r \in Waiting(queue'), r.copy # None
       PROVE  Unbased(r)'
  <2>1. r.by = "editor" /\ InOrder(Head(queue), r)
    BY <1>1, <1>13, <1>15, <1>17, <1>18 DEF QueueAgrees
  <2>2. dirty[r.tab] # Clean
    BY <2>1, <1>3, <1>13, <1>18 DEF InOrder
  <2> QED BY <2>1, <2>2, <1>3 DEF Unbased
<1>19. ASSUME NEW r \in Waiting(queue'), NEW s \in Waiting(queue'), <<r, s>> \in Before(queue')
       PROVE  InOrder(r, s)'
  <2>1. s = e \/ r.by = "editor"
    BY <1>4, <1>5, <1>13, <1>14, <1>19, LockQueue
  <2> QED BY <2>1, <1>14 DEF InOrder
<1> QED BY <1>2, <1>3, <1>6, <1>9, <1>12, <1>15, <1>18, <1>19, NextTask

\* What the copy of the tab becomes when it meets the task k it has stored.
LEMMA MeetsNext ==
    ASSUME Standing, NEW t \in Tab, NEW k \in Task, Valid(k), k.revision = disk.task.revision + 1,
           NEW d, d.task = k, d.revision \in Nat, disk.revision <= d.revision,
           NEW n, n = Applied(mem[t], d, seen[t], main[t] \in Working, Unsaved(t))
    PROVE  /\ n \in Task /\ n.revision <= k.revision
           /\ dirty[t] # Clean => n = mem[t] /\ n.revision # k.revision
           /\ dirty[t] = Clean /\ main[t] \in Working =>
                 Alike(n, mem[t]) /\ (Near(mem[t], k) => Agree(n, k))
           /\ dirty[t] = Clean /\ main[t] \notin Working => n = k
<1>1. /\ mem[t] \in Task /\ mem[t] # None /\ mem[t].revision \in Nat
      /\ mem[t].revision <= disk.task.revision
      /\ seen[t] \in Nat /\ seen[t] <= disk.revision
  BY KnownTabs
<1>2. /\ disk.task.revision \in Nat /\ disk.revision \in Nat /\ k # None /\ k.revision \in Nat
  BY Known, Nothing
<1>3. ~(d.revision < seen[t])
  BY <1>1, <1>2
<1>4. CASE dirty[t] # Clean
  <2>1. n = mem[t]
    BY <1>1, <1>4 DEF Applied, Unsaved
  <2> QED BY <2>1, <1>1, <1>2, <1>4
<1>5. CASE dirty[t] = Clean /\ main[t] \in Working
  <2>1. n = Taken(mem[t], k)
    BY <1>1, <1>2, <1>3, <1>5 DEF Applied, Unsaved, Taken
  <2>2. /\ Taken(mem[t], k) \in Task /\ Taken(mem[t], k).revision = k.revision
        /\ Alike(Taken(mem[t], k), mem[t])
        /\ Near(mem[t], k) => Agree(Taken(mem[t], k), k)
    BY <1>1, TakesOver, Zenon
  <2> QED BY <2>1, <2>2, <1>2, <1>5
<1>6. CASE dirty[t] = Clean /\ main[t] \notin Working
  <2>1. n = k
    BY <1>2, <1>3, <1>6 DEF Applied, Unsaved
  <2> QED BY <2>1, <1>2, <1>6
<1> QED BY <1>4, <1>5, <1>6

\* A correction leaves the settings and the length of the task.
LEMMA CommitDraftAgrees ==
    ASSUME Standing, Fitting', Original', NEW t \in Tab, CommitDraft(t)
    PROVE  Agrees'
<1>1. /\ TypeOK /\ QueueFits /\ QueueAgrees /\ disk.revision \in Nat /\ disk.task.revision \in Nat
      /\ queue \in Seq(Request)
  BY Known DEF TypeOK
<1>2. PICK k : k = [disk.task EXCEPT !.text[draft[t].cue] = draft[t].value, !.revision = @ + 1]
  OBVIOUS
<1>3. /\ k \in Task /\ Valid(k) /\ k.revision = disk.task.revision + 1 /\ Alike(k, disk.task)
      /\ disk'.revision = disk.revision + 1 /\ disk'.task = k
  BY <1>1, <1>2, CommitWrites
<1>4. /\ Granted(t, "editor", FALSE)
      /\ Apply(t, disk', main[t] \in Working, Unsaved(t))
      /\ queue' = Tail(queue) /\ dirty' = dirty /\ main' = main
      /\ cleared' = {} /\ missed' = {} /\ clears' = 0
  BY Known, Zenon DEF CommitDraft, Calm
<1>5. PICK d : d = disk'
  OBVIOUS
<1>6. d.revision \in Nat /\ d.task \in Task \cup {None} /\ Valid(d.task) /\ d.task = k
      /\ disk.revision <= d.revision
  BY <1>1, <1>3, <1>5
<1>7. /\ \A u \in Tab : u # t => mem'[u] = mem[u]
      /\ mem'[t] = Applied(mem[t], d, seen[t], main[t] \in Working, Unsaved(t))
  <2>1. ApplySince(t, d, seen[t], main[t] \in Working, Unsaved(t)) /\ seen[t] \in Nat /\ RunFits
    BY <1>4, <1>5, Known, KnownTabs DEF Apply
  <2> QED BY <2>1, <1>1, <1>6, Heeds
<1>8. PICK n : n = Applied(mem[t], d, seen[t], main[t] \in Working, Unsaved(t))
  OBVIOUS
<1>9. /\ n \in Task /\ n.revision <= k.revision
      /\ dirty[t] # Clean => n = mem[t] /\ n.revision # k.revision
      /\ dirty[t] = Clean /\ main[t] \in Working =>
            Alike(n, mem[t]) /\ (Near(mem[t], k) => Agree(n, k))
      /\ dirty[t] = Clean /\ main[t] \notin Working => n = k
  BY <1>3, <1>6, <1>8, MeetsNext
<1>10. mem'[t] = n
  BY <1>7, <1>8
<1>11. Runs(t) /\ \A m : /\ Near(m, disk.task) <=> Near(m, k)
                         /\ Within(m, disk.task) <=> Within(m, k)
  BY <1>3, KnownTabs DEF Alike, Near, Within
<1>12. n.revision = k.revision => Agree(n, k)
  <2>1. CASE dirty[t] = Clean /\ main[t] \in Working
    <3>1. Near(mem[t], disk.task)
      BY <2>1, <1>11 DEF Runs, Working
    <3> QED BY <3>1, <2>1, <1>9, <1>11
  <2>2. CASE dirty[t] = Clean /\ main[t] \notin Working
    BY <2>2, <1>3, <1>9, Itself
  <2> QED BY <2>1, <2>2, <1>9
<1>13. (main[t] \in Working \/ dirty[t] # Clean) => Alike(n, mem[t])
  BY <1>9, KnownTabs, Itself
<1>14. Runs(t)'
  <2>1. CASE main[t] \in Working
    <3>1. Alike(n, mem[t])
      BY <2>1, <1>13
    <3>2. Near(mem[t], disk.task) => Near(n, k)
      BY <3>1, <1>11, Nearer
    <3>3. n.done = mem[t].done /\ k.done = disk.task.done
      BY <3>1, <1>3 DEF Alike
    <3> QED BY <3>2, <3>3, <1>3, <1>4, <1>10, <1>11 DEF Runs
  <2>2. CASE main[t] \notin Working /\ dirty[t] = Clean
    <3>1. Near(k, k)
      BY <1>3, Itself
    <3> QED BY <3>1, <2>2, <1>3, <1>4, <1>9, <1>10 DEF Runs, Working
  <2>3. CASE main[t] \notin Working /\ dirty[t] # Clean
    BY <2>3, <1>4 DEF Runs, Working
  <2> QED BY <2>1, <2>2, <2>3
<1>15. \A u \in Tab : Runs(u)'
  <2>1. ASSUME NEW u \in Tab, u # t PROVE Runs(u)'
    <3>1. Runs(u) /\ mem'[u] = mem[u] /\ k.done = disk.task.done
      BY <2>1, <1>3, <1>7, KnownTabs DEF Alike
    <3> QED BY <3>1, <1>3, <1>4, <1>11 DEF Runs
  <2> QED BY <2>1, <1>14
<1>16. queue # <<>>
  BY <1>4 DEF Granted
<1>17. /\ \A r \in Waiting(queue') : r \in Waiting(queue)
       /\ \A r, s \in Waiting(queue') : <<r, s>> \in Before(queue') => <<r, s>> \in Before(queue)
  BY <1>1, <1>4, <1>16, Leaves, Zenon
<1>18. ASSUME NEW r \in Waiting(queue'), r.copy # None
       PROVE  Unbased(r)'
  <2>1. r \in Waiting(queue) /\ Unbased(r) /\ r.tab \in Tab
    BY <1>17, <1>18, KnownRequests
  <2>2. ASSUME main[r.tab] \in Working \/ dirty[r.tab] # Clean, Alike(mem[r.tab], r.copy)
        PROVE  Alike(mem'[r.tab], r.copy)
    <3>1. CASE r.tab = t
      <4>1. Alike(n, mem[t])
        BY <3>1, <2>2, <1>13
      <4> QED BY <4>1, <3>1, <2>2, <1>10, Chains
    <3>2. CASE r.tab # t
      BY <3>2, <2>1, <2>2, <1>7
    <3> QED BY <3>1, <3>2
  <2> QED BY <2>1, <2>2, <1>3, <1>4, <1>11 DEF Unbased
<1>19. ASSUME NEW r \in Waiting(queue'), NEW s \in Waiting(queue'), <<r, s>> \in Before(queue')
       PROVE  InOrder(r, s)'
  <2>1. InOrder(r, s)
    BY <1>1, <1>17, <1>19 DEF QueueAgrees
  <2> QED BY <2>1, <1>4 DEF InOrder
<1> QED BY <1>3, <1>4, <1>7, <1>9, <1>10, <1>12, <1>15, <1>17, <1>18, <1>19, NextTask

\* What a checkpoint is merged into, and what comes of it.
LEMMA MergedAgrees ==
    ASSUME Standing, NEW t \in Tab, NEW by \in {"main", "editor"}, SaveMerged(t, by)
    PROVE  \E p \in Waiting(queue), k \in Task, n \in Task :
              /\ queue \in Seq(Request) /\ queue # <<>> /\ p = Head(queue)
              /\ p.tab = t /\ p.by = by /\ p.copy # None /\ p.copy \in Task
              /\ Based(p) /\ Unbased(p)
              /\ dirty[t] # Clean => p.base = disk.task.revision
              /\ disk.task.done <= p.copy.done
              /\ Valid(k) /\ k.revision = disk.task.revision + 1 /\ Alike(k, p.copy)
              /\ Agree(p.copy, disk.task) => Same(k, p.copy)
              /\ disk'.task = k /\ cleared' = {} /\ missed' = {} /\ clears' = 0 /\ Saved(t, by, k)
              /\ \A u \in Tab : u # t => mem'[u] = mem[u] /\ dirty'[u] = dirty[u]
              /\ dirty'[t] = Clean
              /\ dirty[t] # Clean => n = mem[t]
              /\ dirty[t] = Clean /\ main[t] \in Working =>
                    Alike(n, mem[t]) /\ (Near(mem[t], k) => Agree(n, k))
              /\ dirty[t] = Clean /\ main[t] \notin Working => n = k
              /\ mem'[t] \in Task /\ mem'[t].revision = k.revision
              /\ by = "main" /\ main[t] = "retry" => mem'[t] = k
              /\ ~(by = "main" /\ main[t] = "retry") => Same(mem'[t], n)
<1> DEFINE p == Head(queue)
<1>1. /\ TypeOK /\ QueueFits /\ disk.revision \in Nat /\ cleared = {} /\ missed = {}
      /\ clears = 0
      /\ mem[t] # None /\ None \notin Task /\ ~Loose(t, by)
  BY Known, KnownTabs, Nothing DEF Loose
<1>2. /\ Granted(t, by, TRUE)
  BY DEF SaveMerged
<1>3. /\ queue \in Seq(Request) /\ queue # <<>> /\ p \in Waiting(queue)
      /\ p.tab = t /\ p.by = by /\ p.copy # None /\ p.copy \in Task /\ Valid(p.copy)
  BY <1>1, <1>2, HeadOf
<1>4. Based(p) /\ Unbased(p)
  BY <1>3, KnownRequests
<1>5. PICK k : k = Merged(disk.task, p.copy)
  OBVIOUS
<1>6. PICK m : m = Applied(mem[t], disk', seen[t], main[t] \in Working, Unsaved(t))
  OBVIOUS
<1>7. /\ disk.task \in Task /\ Valid(disk.task)
      /\ disk.task.done <= p.copy.done
      /\ Unsaved(t) => disk.task.revision = p.base
      /\ k \in Task /\ Valid(k) /\ k.revision = disk.task.revision + 1
      /\ disk'.revision = disk.revision + 1 /\ disk'.task = k
      /\ m # None
      /\ mem' \in [Tab -> Task \cup {None}] /\ \A u \in Tab : u # t => mem'[u] = mem[u]
      /\ by = "main" /\ main[t] = "retry" => mem'[t] = k
      /\ ~(by = "main" /\ main[t] = "retry") =>
            /\ mem'[t] # None /\ mem'[t].revision = k.revision
            /\ mem'[t].done = m.done /\ mem'[t].conf = m.conf /\ mem'[t].text = m.text
      /\ dirty'[t] = Clean
      /\ \A u \in Tab : u # t => dirty'[u] = dirty[u]
      /\ Calm /\ Saved(t, by, k)
  BY <1>1, <1>5, <1>6, MergedHead
<1>8. /\ k.done = p.copy.done /\ k.conf = p.copy.conf
      /\ Agree(p.copy, disk.task) => k.text = p.copy.text
  <2>1. PICK c : c = p.copy
    OBVIOUS
  <2>2. c \in Task /\ Valid(c) /\ disk.task.done <= c.done /\ k = Merged(disk.task, c)
    BY <2>1, <1>3, <1>5, <1>7
  <2>3. /\ k.done = c.done /\ k.conf = c.conf
        /\ Agree(c, disk.task) => k.text = c.text
    BY <2>2, <1>7, Merges
  <2> QED BY <2>1, <2>3
<1>9. Alike(k, p.copy) /\ (Agree(p.copy, disk.task) => Same(k, p.copy))
  BY <1>8 DEF Alike, Same
<1>10. PICK d : d = disk'
  OBVIOUS
<1>11. d.task = k /\ d.revision \in Nat /\ disk.revision <= d.revision
  BY <1>1, <1>7, <1>10
<1>12. m = Applied(mem[t], d, seen[t], main[t] \in Working, Unsaved(t))
  BY <1>6, <1>10
<1>13. /\ m \in Task
       /\ dirty[t] # Clean => m = mem[t]
       /\ dirty[t] = Clean /\ main[t] \in Working =>
             Alike(m, mem[t]) /\ (Near(mem[t], k) => Agree(m, k))
       /\ dirty[t] = Clean /\ main[t] \notin Working => m = k
  BY <1>7, <1>11, <1>12, MeetsNext
<1>14. /\ mem'[t] \in Task /\ mem'[t].revision = k.revision
       /\ ~(by = "main" /\ main[t] = "retry") => Same(mem'[t], m)
  BY <1>1, <1>7 DEF Same
<1>15. cleared' = {} /\ missed' = {} /\ clears' = 0 /\ (dirty[t] # Clean => p.base = disk.task.revision)
  BY <1>1, <1>7 DEF Calm, Unsaved
<1> HIDE DEF p
<1>16. p = Head(queue)
  BY DEF p
<1> QED BY <1>3, <1>4, <1>7, <1>9, <1>13, <1>14, <1>15, <1>16

\* What a worker saves is its copy, and the other copies only fall behind.
LEMMA WorkerSaves ==
    ASSUME Standing, Fitting', Original', NEW t \in Tab, SaveMerged(t, "main")
    PROVE  Agrees'
<1>1. /\ TypeOK /\ QueueFits /\ QueueAgrees /\ Granted(t, "main", TRUE)
      /\ disk.task.done \in Nat /\ disk.task.revision \in Nat
  BY Known DEF SaveMerged
<1>2. PICK p \in Waiting(queue), k \in Task, n \in Task :
              /\ queue \in Seq(Request) /\ queue # <<>> /\ p = Head(queue)
              /\ p.tab = t /\ p.by = "main" /\ p.copy # None /\ p.copy \in Task
              /\ Based(p) /\ Unbased(p)
              /\ dirty[t] # Clean => p.base = disk.task.revision
              /\ disk.task.done <= p.copy.done
              /\ Valid(k) /\ k.revision = disk.task.revision + 1 /\ Alike(k, p.copy)
              /\ Agree(p.copy, disk.task) => Same(k, p.copy)
              /\ disk'.task = k /\ cleared' = {} /\ missed' = {} /\ clears' = 0 /\ Saved(t, "main", k)
              /\ \A u \in Tab : u # t => mem'[u] = mem[u] /\ dirty'[u] = dirty[u]
              /\ dirty'[t] = Clean
              /\ dirty[t] # Clean => n = mem[t]
              /\ dirty[t] = Clean /\ main[t] \in Working =>
                    Alike(n, mem[t]) /\ (Near(mem[t], k) => Agree(n, k))
              /\ dirty[t] = Clean /\ main[t] \notin Working => n = k
              /\ mem'[t] \in Task /\ mem'[t].revision = k.revision
              /\ main[t] = "retry" => mem'[t] = k
              /\ main[t] # "retry" => Same(mem'[t], n)
  BY MergedAgrees
<1>3. /\ main[t] \in Saving
      /\ \A u \in Tab : u # t => main'[u] = main[u]
      /\ main'[t] \in {"run", "sent", "closing", "fix"}
      /\ queue' = Tail(queue) \/ queue' = Append(Tail(queue), Plain(t, "main"))
  BY <1>1, <1>2, SavedOn, ZenonT(20) DEF Saving, Begin
<1>4. \A u \in Tab : u # t => main[u] = "off"
  <2>1. main[t] # "off"
    BY <1>3 DEF Saving
  <2> QED BY <2>1, Alone
<1>5. k.conf = disk.task.conf /\ disk.task.done <= k.done /\ k.done = p.copy.done
  <2>1. Near(p.copy, disk.task)
    <3>1. CASE dirty[t] # Clean
      BY <3>1, <1>2, Nearer DEF Based
    <3>2. CASE dirty[t] = Clean
      BY <3>2, <1>2 DEF Unbased
    <3> QED BY <3>1, <3>2
  <2> QED BY <2>1, <1>2 DEF Near, Alike
<1>6. Agree(mem'[t], k) /\ Alike(mem'[t], k)
  <2>1. Agree(k, k) /\ Alike(k, k) /\ Near(k, k)
    BY Itself
  <2>2. CASE main[t] = "retry" \/ (dirty[t] = Clean /\ main[t] \notin Working)
    <3>1. mem'[t] = k \/ Same(mem'[t], k)
      BY <2>2, <1>2
    <3> QED BY <3>1, <2>1, Nearer
  <2>3. CASE main[t] # "retry" /\ dirty[t] # Clean
    <3>1. Agree(p.copy, disk.task) /\ Same(mem[t], p.copy)
      BY <2>3, <1>2 DEF Based
    <3>2. Same(k, p.copy)
      BY <3>1, <1>2
    <3>3. Same(mem[t], k)
      BY <3>1, <3>2 DEF Same
    <3>4. Same(mem'[t], k)
      BY <2>3, <3>3, <1>2, Chains
    <3> QED BY <3>4, <2>1, Nearer
  <2>4. CASE main[t] # "retry" /\ dirty[t] = Clean /\ main[t] \in Working
    <3>1. Alike(mem[t], p.copy)
      BY <2>4, <1>2 DEF Unbased
    <3>2. Alike(mem[t], k)
      BY <3>1, <1>2 DEF Alike
    <3>3. Near(mem[t], k)
      BY <3>2, <2>1, Nearer
    <3>4. Agree(n, k) /\ Alike(n, k) /\ Same(mem'[t], n)
      BY <2>4, <3>2, <3>3, <1>2, Chains
    <3>5. Agree(mem'[t], k)
      BY <3>4, Nearer
    <3>6. Alike(mem'[t], k)
      BY <3>4, Nearer, Chains
    <3> QED BY <3>5, <3>6
  <2> QED BY <2>2, <2>3, <2>4
<1>7. \A u \in Tab : Runs(u)'
  <2>1. Runs(t)'
    <3>1. Near(mem'[t], k) /\ mem'[t].done = k.done
      BY <1>6, Nearer DEF Alike
    <3> QED BY <3>1, <1>2, <1>3 DEF Runs
  <2>2. \A u \in Tab : u # t => Runs(u)'
    BY <1>3, <1>4 DEF Runs
  <2> QED BY <2>1, <2>2
<1>8. PICK e \in Request : /\ e = Plain(t, "main") /\ e.tab = t /\ e.by = "main"
                           /\ e.copy = None /\ e.base = 0
  BY Asked
<1>9. /\ \A r \in Waiting(queue') : r = e \/ (r \in Waiting(queue) /\ r.by = "editor")
      /\ \A r, s \in Waiting(queue') : <<r, s>> \in Before(queue') => s = e \/ r.by = "editor"
      /\ \A r \in Waiting(queue') : r = e \/ <<p, r>> \in Before(queue)
  BY <1>2, <1>3, <1>4, <1>8, LockQueue
<1>10. ASSUME NEW r \in Waiting(queue'), r.copy # None
       PROVE  Unbased(r)'
  <2>1. /\ r \in Waiting(queue) /\ r.by = "editor" /\ <<p, r>> \in Before(queue)
    BY <1>8, <1>9, <1>10
  <2>2. Unbased(r) /\ r.tab \in Tab
    BY <2>1, <1>10, KnownRequests
  <2>3. CASE r.tab = t
    <3>1. Alike(p.copy, r.copy)
      BY <2>1, <2>3, <1>1, <1>2, <1>10 DEF QueueAgrees, InOrder
    <3>2. k.done \in Nat
      BY WorkspaceAssumption DEF Task
    <3>3. Within(r.copy, k)
      BY <3>1, <3>2, <1>2 DEF Alike, Within
    <3> QED BY <3>3, <2>1, <2>3, <1>2, <1>3 DEF Unbased
  <2>4. CASE r.tab # t
    <3>1. Within(r.copy, disk.task) => Within(r.copy, k)
      <4>1. PICK c \in Task : c = r.copy
        BY <2>1, <1>10, KnownRequests
      <4>2. c.done \in Nat /\ k.done \in Nat
        BY WorkspaceAssumption DEF Task
      <4> QED BY <4>1, <4>2, <1>1, <1>5 DEF Within
    <3> QED BY <3>1, <2>1, <2>2, <2>4, <1>2, <1>3 DEF Unbased
  <2> QED BY <2>3, <2>4
<1>11. ASSUME NEW r \in Waiting(queue'), NEW s \in Waiting(queue'), <<r, s>> \in Before(queue')
       PROVE  InOrder(r, s)'
  BY <1>8, <1>9, <1>11 DEF InOrder
<1>12. k.revision \in Nat
  BY DEF Task
<1> QED BY <1>2, <1>6, <1>7, <1>8, <1>9, <1>10, <1>11, <1>12, NextTask

\* An editor saves a copy that nobody has overtaken, or adds nothing.
LEMMA EditorSaves ==
    ASSUME Standing, Fitting', Original', NEW t \in Tab, SaveMerged(t, "editor")
    PROVE  Agrees'
<1>1. /\ TypeOK /\ QueueFits /\ QueueAgrees /\ Granted(t, "editor", TRUE)
      /\ disk.task.done \in Nat /\ disk.task.revision \in Nat
  BY Known DEF SaveMerged
<1>2. PICK p \in Waiting(queue), k \in Task, n \in Task :
              /\ queue \in Seq(Request) /\ queue # <<>> /\ p = Head(queue)
              /\ p.tab = t /\ p.by = "editor" /\ p.copy # None /\ p.copy \in Task
              /\ Based(p) /\ Unbased(p)
              /\ dirty[t] # Clean => p.base = disk.task.revision
              /\ disk.task.done <= p.copy.done
              /\ Valid(k) /\ k.revision = disk.task.revision + 1 /\ Alike(k, p.copy)
              /\ Agree(p.copy, disk.task) => Same(k, p.copy)
              /\ disk'.task = k /\ cleared' = {} /\ missed' = {} /\ clears' = 0 /\ Saved(t, "editor", k)
              /\ \A u \in Tab : u # t => mem'[u] = mem[u] /\ dirty'[u] = dirty[u]
              /\ dirty'[t] = Clean
              /\ dirty[t] # Clean => n = mem[t]
              /\ dirty[t] = Clean /\ main[t] \in Working =>
                    Alike(n, mem[t]) /\ (Near(mem[t], k) => Agree(n, k))
              /\ dirty[t] = Clean /\ main[t] \notin Working => n = k
              /\ mem'[t] \in Task /\ mem'[t].revision = k.revision
              /\ Same(mem'[t], n)
  BY MergedAgrees
<1>3. main' = main /\ queue' = Append(Tail(queue), Plain(t, "editor"))
  BY <1>2 DEF Saved
<1>4. /\ k.done \in Nat /\ p.copy.done \in Nat /\ mem[t] \in Task /\ Runs(t)
      /\ Agree(k, k) /\ Near(k, k) /\ Alike(mem[t], mem[t])
  <2>1. k.done \in Nat /\ p.copy.done \in Nat
    BY <1>2, WorkspaceAssumption DEF Task
  <2>2. mem[t] \in Task /\ Runs(t)
    BY KnownTabs
  <2> QED BY <2>1, <2>2, Itself
<1>5. dirty[t] # Clean =>
         /\ dirty[t] = disk.task.revision
         /\ Agree(p.copy, disk.task) /\ Same(mem[t], p.copy)
  BY <1>2 DEF Based
<1>6. dirty[t] = Clean => Within(p.copy, disk.task)
  BY <1>2 DEF Unbased
<1>7. /\ k.conf = disk.task.conf /\ disk.task.done <= k.done
      /\ dirty[t] = Clean => k.done = disk.task.done
  <2>1. CASE dirty[t] # Clean
    BY <2>1, <1>2, <1>5 DEF Agree, Alike
  <2>2. CASE dirty[t] = Clean
    BY <2>2, <1>1, <1>2, <1>4, <1>6 DEF Within, Alike
  <2> QED BY <2>1, <2>2
<1>8. ASSUME NEW m \in Task
      PROVE  /\ Near(m, disk.task) => Near(m, k)
             /\ Within(m, disk.task) => Within(m, k)
  <2>1. m.done \in Nat
    BY WorkspaceAssumption DEF Task
  <2> QED BY <2>1, <1>1, <1>4, <1>7 DEF Near, Within
<1>9. /\ Agree(mem'[t], k)
      /\ main[t] \in Working \/ dirty[t] # Clean => Alike(mem'[t], mem[t])
  <2>1. CASE dirty[t] # Clean
    <3>1. Same(k, p.copy) /\ Same(mem[t], p.copy) /\ Same(mem'[t], mem[t])
      BY <2>1, <1>2, <1>5
    <3>2. Same(mem'[t], k)
      BY <3>1 DEF Same
    <3> QED BY <3>1, <3>2, <1>4, Nearer
  <2>2. CASE dirty[t] = Clean /\ main[t] \in Working
    <3>1. Near(mem[t], k)
      BY <2>2, <1>4, <1>8 DEF Runs, Working
    <3>2. Agree(n, k) /\ Alike(n, mem[t]) /\ Same(mem'[t], n)
      BY <2>2, <3>1, <1>2
    <3>3. Agree(mem'[t], k)
      BY <3>2, Nearer
    <3>4. Alike(mem'[t], mem[t])
      BY <3>2, Nearer, Chains
    <3> QED BY <3>3, <3>4
  <2>3. CASE dirty[t] = Clean /\ main[t] \notin Working
    <3>1. Same(mem'[t], k)
      BY <2>3, <1>2
    <3> QED BY <3>1, <2>3, <1>4, Nearer
  <2> QED BY <2>1, <2>2, <2>3
<1>10. ASSUME NEW u \in Tab, main[u] \in {"sent", "keeping"} PROVE k.done = disk.task.done
  <2>1. dirty[t] # disk.task.revision
    BY <1>10, Known DEF RunAgrees
  <2> QED BY <2>1, <1>5, <1>7
<1>11. \A u \in Tab : Runs(u)'
  <2>1. Runs(t)'
    <3>1. Near(mem'[t], k)
      BY <1>9, Nearer
    <3>2. ASSUME main[t] \in {"sent", "keeping"}
          PROVE  mem'[t].done = mem[t].done /\ k.done = disk.task.done
      <4>1. main[t] \in Working
        BY <3>2 DEF Working
      <4> QED BY <4>1, <3>2, <1>9, <1>10 DEF Alike
    <3> QED BY <3>1, <3>2, <1>2, <1>3, <1>4 DEF Runs
  <2>2. ASSUME NEW u \in Tab, u # t PROVE Runs(u)'
    <3>1. Runs(u) /\ mem[u] \in Task
      BY KnownTabs
    <3>2. Near(mem[u], disk.task) => Near(mem[u], k)
      BY <3>1, <1>8
    <3> QED BY <3>1, <3>2, <2>2, <1>2, <1>3, <1>10 DEF Runs
  <2> QED BY <2>1, <2>2
<1>12. PICK e \in Request : /\ e = Plain(t, "editor") /\ e.tab = t /\ e.by = "editor"
                            /\ e.copy = None /\ e.base = 0
  BY AskedByEditor
<1>13. /\ \A r \in Waiting(queue') :
             r = e \/ (r \in Waiting(queue) /\ <<p, r>> \in Before(queue))
       /\ \A r, s \in Waiting(queue') : <<r, s>> \in Before(queue') =>
             <<r, s>> \in Before(queue) \/ s = e
  <2>1. queue' = Append(Tail(queue), e)
    BY <1>3, <1>12
  <2>2. /\ \A r \in Waiting(queue') :
              \/ r \in Waiting(queue) /\ <<Head(queue), r>> \in Before(queue)
              \/ r = e
        /\ \A r, s \in Waiting(queue') : <<r, s>> \in Before(queue') =>
              \/ <<r, s>> \in Before(queue) /\ <<Head(queue), r>> \in Before(queue)
              \/ r \in Waiting(queue) /\ <<Head(queue), r>> \in Before(queue) /\ s = e
    BY <2>1, <1>2, AsksMore, Zenon
  <2> QED BY <2>2, <1>2
<1>14. \A r \in Waiting(queue') : r.copy # None =>
          /\ r \in Waiting(queue)
          /\ ~(r.tab = t /\ r.by = "editor")
  BY <1>1, <1>2, <1>12, <1>13, ZenonT(20) DEF QueueFits, Apart
<1>15. ASSUME NEW r \in Waiting(queue'), r.copy # None
       PROVE  Unbased(r)'
  <2>1. /\ r \in Waiting(queue) /\ ~(r.tab = t /\ r.by = "editor")
        /\ Based(r) /\ Unbased(r) /\ r.tab \in Tab /\ r.copy \in Task
    BY <1>14, <1>15, KnownRequests
  <2>2. /\ Near(r.copy, disk.task) => Near(r.copy, k)
        /\ Within(r.copy, disk.task) => Within(r.copy, k)
    BY <2>1, <1>8
  <2>3. CASE r.tab # t
    BY <2>1, <2>2, <2>3, <1>2, <1>3 DEF Unbased
  <2>4. CASE r.tab = t /\ r.by = "main"
    <3>1. Near(r.copy, k)
      <4>1. CASE dirty[t] # Clean
        <5>1. r.base = disk.task.revision
          BY <2>1, <2>4, <4>1, <1>5 DEF Based
        <5>2. Agree(r.copy, disk.task)
          BY <2>1, <5>1 DEF Based
        <5> QED BY <5>2, <2>2, Nearer
      <4>2. CASE dirty[t] = Clean
        BY <4>2, <2>1, <2>2, <2>4 DEF Unbased
      <4> QED BY <4>1, <4>2
    <3>2. main[t] \in Working => Alike(mem'[t], r.copy)
      <4>1. ASSUME main[t] \in Working PROVE Alike(mem'[t], r.copy)
        <5>1. Alike(mem[t], r.copy) /\ Alike(mem'[t], mem[t])
          BY <4>1, <2>1, <2>4, <1>9 DEF Unbased
        <5> QED BY <5>1, Chains
      <4> QED BY <4>1
    <3> QED BY <3>1, <3>2, <2>4, <1>2, <1>3 DEF Unbased
  <2> QED BY <2>1, <2>3, <2>4, KnownRequests
<1>16. ASSUME NEW r \in Waiting(queue'), NEW s \in Waiting(queue'), <<r, s>> \in Before(queue')
       PROVE  InOrder(r, s)'
  <2>1. CASE s.copy = None
    BY <2>1 DEF InOrder
  <2>2. CASE s.copy # None
    <3>1. <<r, s>> \in Before(queue) /\ s \in Waiting(queue) /\ r \in Waiting(queue)
      BY <2>2, <1>12, <1>13, <1>14, <1>16, <1>2, WaitingRequests
    <3>2. InOrder(r, s) /\ s.tab \in Tab
      BY <3>1, <1>1, KnownRequests DEF QueueAgrees
    <3>3. s.by = "editor" => s.tab # t
      BY <2>2, <1>14
    <3> QED BY <3>2, <3>3, <1>2, <1>3 DEF InOrder
  <2> QED BY <2>1, <2>2
<1>17. k.revision \in Nat
  BY DEF Task
<1>18. \A r \in Waiting(queue') : r \in Waiting(queue) \/ (r.copy = None /\ r.base = 0)
  BY <1>12, <1>13
<1> QED BY <1>2, <1>9, <1>11, <1>15, <1>16, <1>17, <1>18, NextTask

-----------------------------------------------------------------------------
\* The task of the beginning does not come back.
LEMMA StaysOriginal ==
    ASSUME Fitting, [Next]_vars, Original'
    PROVE  Original
<1>1. CASE disk'.task = disk.task /\ imports' = imports
  BY <1>1 DEF Original
<1>2. CASE disk.task # None /\ imports' = imports
  BY <1>2 DEF Original
<1>3. CASE UNCHANGED vars
  BY <1>3 DEF vars, Original
<1>4. CASE Next
  <2>1. PICK t \in Tab :
           Work(t) \/ Persist(t) \/ Edit(t) \/ Administer(t) \/ Hear(t) \/ Reload(t)
    BY <1>4 DEF Next
  <2>2. CASE Work(t)
    BY <2>2, <1>1 DEF Work, Start, RunSave, AnswerBlock, RunEnd, Finish, Unwritten, Calm
  <2>3. CASE Persist(t)
    BY <2>3, <1>1, <1>2 DEF Persist, SaveMerged, MayMerge, SaveFails, Refused, Unwritten, Calm
  <2>4. CASE Edit(t)
    BY <2>4, <1>1, <1>2
       DEF Edit, Type, SaveDraft, CommitDraft, MayCorrect, RejectDraft, KeepMine, DropDraft,
           Refused, Unwritten, Calm
  <2>5. CASE Administer(t)
    <3>1. CASE StartFix(t) \/ StartDelete(t) \/ ChangeFails(t) \/ Unlock(t)
      BY <3>1, <1>1 DEF StartFix, StartDelete, ChangeFails, Unlock, Refused, Unwritten, Calm
    <3>2. CASE Fix(t)
      BY <3>2, <1>2 DEF Fix, Calm
    <3>3. CASE Delete(t)
      <4>1. disk'.task = None
        BY <3>3 DEF Delete, Write
      <4> QED BY <4>1 DEF Original
    <3>4. CASE Clear(t)
      <4>1. disk'.task = None
        BY <3>4 DEF Clear
      <4> QED BY <4>1 DEF Original
    <3>5. CASE Import(t)
      <4>1. imports \in Nat
        BY WorkspaceAssumption DEF Fitting, TypeOK
      <4>2. imports' = imports + 1
        BY <3>5 DEF Import
      <4> QED BY <4>1, <4>2 DEF Original
    <3>6. CASE WriteOther(t)
      <4>1. disk'.task = disk.task
        BY <3>6 DEF WriteOther, Fitting, TypeOK
      <4> QED BY <4>1, <3>6, <1>1 DEF WriteOther, Calm
    <3>7. CASE AskHeld(t) \/ ForgoClear(t)
      BY <3>7, <1>1 DEF AskHeld, ForgoClear, Unwritten
    <3> QED BY <2>5, <3>1, <3>2, <3>3, <3>4, <3>5, <3>6, <3>7 DEF Administer
  <2>6. CASE Hear(t)
    BY <2>6, <1>1 DEF Hear, HearOfClear, MissEvent, Refresh, Unwritten, Calm
  <2>7. CASE Reload(t)
    BY <2>7, <1>1 DEF Reload, Unwritten
  <2> QED BY <2>1, <2>2, <2>3, <2>4, <2>5, <2>6, <2>7
<1> QED BY <1>3, <1>4

\* A worker keeps its task in workspace.jobs, for its tab never meets a storage without it.
LEMMA ListedMeeting ==
    ASSUME Standing, NEW t \in Tab, NEW d, d.task \in Task, Valid(d.task),
           NEW since, NEW works, NEW unsaved,
           ApplySince(t, d, since, works, unsaved)
    PROVE  hand' = hand
<1>1. mem[t] # None /\ mem \in [Tab -> Task \cup {None}] /\ hand \in [Tab -> Task \cup {None}]
  BY Known, KnownTabs DEF TypeOK
<1>2. /\ mem' = [mem EXCEPT ![t] = Applied(@, d, since, works, unsaved)]
      /\ hand' = [hand EXCEPT ![t] = IF works /\ @ = None /\ mem'[t] = None THEN mem[t] ELSE @]
  BY Zenon DEF ApplySince
<1>3. mem'[t] = Applied(mem[t], d, since, works, unsaved)
  BY <1>1, <1>2
<1>4. Applied(mem[t], d, since, works, unsaved) # None
  <2>1. PICK m \in Task \cup {None} : m = mem[t] /\ m # None
    BY <1>1
  <2>2. d.task # None
    BY Nothing
  <2> QED BY <2>1, <2>2, Meets
<1> QED BY <1>1, <1>2, <1>3, <1>4

LEMMA ListedNext ==
    ASSUME Standing, Fitting', Original', [Next]_vars
    PROVE  Listed'
<1>1. /\ TypeOK /\ cleared = {} /\ disk.task \in Task /\ Valid(disk.task)
      /\ hand \in [Tab -> Task \cup {None}] /\ \A t \in Tab : hand[t] = None
  BY Known DEF TypeOK, Listed
<1>7. disk'.task \in Task /\ Valid(disk'.task)
  BY DEF Fitting, TypeOK, Original
<1>2. ASSUME hand' = hand PROVE Listed'
  BY <1>1, <1>2 DEF Listed
<1>3. ASSUME NEW t \in Tab, hand' = [hand EXCEPT ![t] = None] PROVE Listed'
  BY <1>1, <1>3 DEF Listed
<1>4. ASSUME NEW t \in Tab, NEW m, NEW l, NEW z, SaveCopy(t, m, l, z) PROVE hand' = hand
  BY <1>1, <1>4 DEF SaveCopy, Hold
<1>5. CASE UNCHANGED vars
  BY <1>2, <1>5 DEF vars
<1>6. CASE Next
  <2>1. PICK t \in Tab :
           Work(t) \/ Persist(t) \/ Edit(t) \/ Administer(t) \/ Hear(t) \/ Reload(t)
    BY <1>6 DEF Next
  <2>2. CASE Work(t)
    <3>1. CASE Finish(t)
      BY <3>1, <1>3 DEF Finish
    <3>2. CASE Start(t) \/ RunSave(t) \/ AnswerBlock(t) \/ RunEnd(t)
      <4>1. hand' = hand
        BY <3>2, <1>4 DEF Start, RunSave, AnswerBlock, RunEnd
      <4> QED BY <4>1, <1>2
    <3> QED BY <2>2, <3>1, <3>2 DEF Work
  <2>3. CASE Persist(t)
    <3>1. PICK by \in {"main", "editor"} : SaveMerged(t, by) \/ SaveFails(t, by)
      BY <2>3 DEF Persist
    <3>2. CASE SaveFails(t, by)
      BY <3>2, <1>2 DEF SaveFails
    <3>3. CASE SaveMerged(t, by)
      <4>1. QueueFits /\ ~Loose(t, by)
        BY <1>1, Known DEF Loose
      <4>2. hand' \in [Tab -> Task \cup {None}] /\ \A u \in Tab : hand'[u] = hand[u]
        BY <4>1, <3>3, <1>1, MergedHead
      <4> QED BY <4>2, <1>1 DEF Listed
    <3> QED BY <3>1, <3>2, <3>3
  <2>4. CASE Edit(t)
    <3>1. CASE CommitDraft(t) \/ RejectDraft(t)
      <4>1. PICK d : /\ d.task \in Task /\ Valid(d.task)
                     /\ ApplySince(t, d, seen[t], main[t] \in Working, Unsaved(t))
        BY <3>1, <1>1, <1>7 DEF CommitDraft, RejectDraft, Apply
      <4> QED BY <4>1, <1>2, ListedMeeting
    <3>2. CASE ~(CommitDraft(t) \/ RejectDraft(t))
      BY <2>4, <3>2, <1>2 DEF Edit, Type, SaveDraft, KeepMine, DropDraft
    <3> QED BY <3>1, <3>2
  <2>5. CASE Administer(t)
    <3>1. CASE StartFix(t)
      <4>1. hand' = hand
        BY <3>1, <1>4 DEF StartFix
      <4> QED BY <4>1, <1>2
    <3>2. CASE Fix(t) \/ Import(t) \/ WriteOther(t)
      <4>1. PICK works : ApplySince(t, disk', seen[t], works, Unsaved(t))
        BY <3>2 DEF Fix, Import, WriteOther, Apply
      <4> QED BY <4>1, <1>2, <1>7, ListedMeeting
    <3>3. CASE \/ StartDelete(t) \/ Delete(t) \/ ChangeFails(t) \/ Unlock(t)
               \/ AskHeld(t) \/ Clear(t) \/ ForgoClear(t)
      <4>1. hand' = hand
        BY <3>3 DEF StartDelete, Delete, ChangeFails, Unlock, AskHeld, Clear, ForgoClear
      <4> QED BY <4>1, <1>2
    <3> QED BY <2>5, <3>1, <3>2, <3>3 DEF Administer
  <2>6. CASE Hear(t)
    <3>1. Refresh(t)
      BY <2>6, <1>1 DEF Hear, HearOfClear, MissEvent
    <3>2. ApplySince(t, disk, seen[t], main[t] \in Working, Unsaved(t))
      BY <3>1, Zenon DEF Refresh, Apply
    <3> QED BY <3>2, <1>1, <1>2, ListedMeeting
  <2>7. CASE Reload(t)
    BY <2>7, <1>3 DEF Reload
  <2> QED BY <2>1, <2>2, <2>3, <2>4, <2>5, <2>6, <2>7
<1> QED BY <1>5, <1>6

\* Copies and requests go on agreeing with it.
LEMMA NextAgrees == IInv /\ [Next]_vars => Agreeing'
<1> SUFFICES ASSUME IInv, [Next]_vars, Original' PROVE Agrees' /\ Listed'
  BY DEF Agreeing
<1>1. Fitting' /\ Standing
  BY NextFits, StaysOriginal DEF IInv, Agreeing, Standing
<1>4. Listed'
  BY <1>1, ListedNext
<1> SUFFICES Agrees'
  BY <1>4
<1>2. CASE UNCHANGED vars
  <2>1. /\ disk' = disk /\ mem' = mem /\ seen' = seen /\ dirty' = dirty
        /\ main' = main /\ queue' = queue /\ cleared' = cleared /\ missed' = missed /\ clears' = clears
    BY <1>2 DEF vars
  <2>2. Agrees
    BY <1>1 DEF Standing
  <2> QED BY <2>1, <2>2 DEF Agrees, Young, Behind, CopiesAgree, RunAgrees, Runs, QueueAgrees,
                            Based, Unbased, InOrder
<1>3. CASE Next
  <2>1. PICK t \in Tab :
           Work(t) \/ Persist(t) \/ Edit(t) \/ Administer(t) \/ Hear(t) \/ Reload(t)
    BY <1>3 DEF Next
  <2>2. CASE Work(t)
    BY <2>2, <1>1, StartAgrees, RunSaveAgrees, AnswerBlockAgrees, RunEndAgrees, FinishAgrees
       DEF Work
  <2>3. CASE Persist(t)
    <3>1. PICK by \in {"main", "editor"} : SaveMerged(t, by) \/ SaveFails(t, by)
      BY <2>3 DEF Persist
    <3> QED BY <3>1, <1>1, WorkerSaves, EditorSaves, LastAgrees, RetryAgrees
  <2>4. CASE Edit(t)
    BY <2>4, <1>1, TypingAgrees, SaveDraftAgrees, CommitDraftAgrees, RejectDraftAgrees DEF Edit
  <2>5. CASE Administer(t)
    <3>1. disk'.task # None /\ disk.task # None
      BY <1>1 DEF Original, Standing
    <3>2. ASSUME Delete(t) PROVE FALSE
      <4>1. disk'.task = None
        BY <3>2 DEF Delete, Write
      <4> QED BY <3>1, <4>1
    <3>3. ASSUME Clear(t) PROVE FALSE
      <4>1. disk'.task = None
        BY <3>3 DEF Clear
      <4> QED BY <3>1, <4>1
    <3>4. ASSUME Import(t) PROVE FALSE
      <4>1. disk.task = None
        BY <3>4 DEF Import
      <4> QED BY <3>1, <4>1
    <3> QED BY <2>5, <3>2, <3>3, <3>4, <1>1, StartFixAgrees, FixAgrees, StartDeleteAgrees, ChangeFailsAgrees,
               UnlockAgrees, WriteOtherAgrees, AskHeldAgrees DEF Administer
  <2>6. CASE Hear(t)
    <3>1. cleared = {}
      BY <1>1, Known
    <3>2. Refresh(t)
      BY <2>6, <3>1 DEF Hear, HearOfClear, MissEvent
    <3> QED BY <3>2, <1>1, RefreshAgrees
  <2>7. CASE Reload(t)
    BY <2>7, <1>1, ReloadAgrees
  <2> QED BY <2>1, <2>2, <2>3, <2>4, <2>5, <2>6, <2>7
<1> QED BY <1>2, <1>3

LEMMA InitAgrees == Init => Agreeing
<1> SUFFICES ASSUME Init PROVE Agrees /\ Listed
  BY DEF Agreeing
<1>1. Fitting
  BY InitFits
<1>2. PICK f \in Conf : disk = [revision |-> 1, task |-> NewTask(1, f)]
  BY DEF Init
<1>3. PICK k : k = NewTask(1, f)
  OBVIOUS
<1>4. k.revision = 1
  BY <1>3 DEF NewTask
<1>5. disk.revision = 1 /\ disk.task = k
  BY <1>2, <1>3
<1>6. /\ mem = [t \in Tab |-> disk.task] /\ seen = [t \in Tab |-> 1]
      /\ dirty = [t \in Tab |-> Clean] /\ main = [t \in Tab |-> "off"] /\ queue = <<>>
      /\ cleared = {} /\ missed = {} /\ clears = 0 /\ hand = [t \in Tab |-> None]
  BY DEF Init
<1>7. k \in Task /\ k # None
  <2>1. disk.task \in Task \cup {None}
    BY <1>1 DEF Fitting, TypeOK
  <2>2. k # None
    BY <1>3, WorkspaceAssumption DEF NewTask, Task
  <2> QED BY <2>1, <2>2, <1>5
<1>8. Agree(k, k)
  BY <1>7, Itself
<1>9. Waiting(queue) = {}
  BY <1>6 DEF Waiting
<1>10. Young /\ Behind /\ CopiesAgree
  BY <1>4, <1>5, <1>6, <1>7, <1>8, <1>9, Nothing DEF Young, Behind, CopiesAgree
<1>12. Listed
  BY <1>6 DEF Listed
<1>11. RunAgrees /\ QueueAgrees
  BY <1>6, <1>9 DEF RunAgrees, Runs, QueueAgrees
<1> QED BY <1>10, <1>11, <1>12 DEF Agrees

-----------------------------------------------------------------------------
(* Unsaved copies.                                                         *)

\* What a step may do to the copy of the tab t: an unsaved one stays what it is, or has
\* one block more, unless it is given up.
Kept(t) ==
    (Unsaved(t) /\ dirty'[t] # Clean /\ mem[t] # None)
       => /\ mem'[t] # None /\ mem'[t].done >= mem[t].done
          /\ \A c \in 1 .. mem[t].done : mem'[t].text[c] = mem[t].text[c]

LEMMA KeptAsItIs ==
    ASSUME TypeOK, NEW t \in Tab, mem'[t] = mem[t]
    PROVE  Kept(t)
<1>1. mem[t] # None => mem[t].done \in Nat
  BY WorkspaceAssumption DEF TypeOK, Task
<1> QED BY <1>1 DEF Kept

\* A step of tab t that does one of these leaves every tab its unsaved copy.
LEMMA KeptByAll ==
    ASSUME TypeOK, NEW t \in Tab, \A u \in Tab : u # t => mem'[u] = mem[u],
           \/ mem'[t] = mem[t]
           \/ ~Unsaved(t)
           \/ mem[t] = None
           \/ dirty'[t] = Clean
    PROVE  \A u \in Tab : Kept(u)
<1>1. \A u \in Tab : mem'[u] = mem[u] => Kept(u)
  BY KeptAsItIs
<1> QED BY <1>1 DEF Kept

\* A tab that meets a workspace keeps its own unsaved copy.
LEMMA KeptMeeting ==
    ASSUME TypeOK, NEW t \in Tab, NEW d, NEW since, NEW works,
           mem' = [mem EXCEPT ![t] = Applied(@, d, since, works, Unsaved(t))]
    PROVE  \A u \in Tab : Kept(u)
<1>1. mem \in [Tab -> Task \cup {None}]
  BY DEF TypeOK
<1>2. mem'[t] = Applied(mem[t], d, since, works, Unsaved(t)) /\ \A u \in Tab : u # t => mem'[u] = mem[u]
  BY <1>1
<1>3. Unsaved(t) /\ mem[t] # None => mem'[t] = mem[t]
  BY <1>2 DEF Applied
<1> QED BY <1>2, <1>3, KeptByAll

\* The worker's copy is handed to persistJob as it is.
LEMMA HeldOff ==
    ASSUME Fitting, NEW t \in Tab, main[t] = "off"
    PROVE  Held(t) = mem[t]
BY DEF Fitting, RunFits, Held, Working

LEMMA KeptSaving ==
    ASSUME TypeOK, NEW t \in Tab, NEW l, NEW z, SaveCopy(t, Held(t), l, z)
    PROVE  mem' = mem
BY DEF TypeOK, SaveCopy, Hold, Held

\* The answer adds a block behind those that were there.
LEMMA KeptAnswering ==
    ASSUME Fitting, NEW t \in Tab, AnswerBlock(t)
    PROVE  \A u \in Tab : Kept(u)
<1>1. TypeOK /\ RunFits /\ main[t] = "sent"
  BY DEF Fitting, AnswerBlock
<1>2. Held(t) \in Task /\ Held(t) # None /\ Held(t).done < Blocks
  <2>1. Held(t) # None /\ Held(t).done < Blocks
    BY <1>1 DEF RunFits, Running
  <2> QED BY <2>1, <1>1, TypedTabs
<1>3. PICK v \in Text : SaveCopy(t, Answer(Held(t), v), "keeping", "closing")
  BY DEF AnswerBlock, Answer
<1>4. PICK m \in Task : m = Held(t)
  BY <1>2
<1>5. /\ Answer(m, v) \in Task /\ Answer(m, v).done = m.done + 1
      /\ \A c \in Cue : c # m.done + 1 => Answer(m, v).text[c] = m.text[c]
  BY <1>2, <1>4, Answered, Zenon
<1>6. PICK n : n = Answer(m, v)
  OBVIOUS
<1>7. m.done \in 0 .. Blocks /\ 1 .. m.done \subseteq Cue
  BY WorkspaceAssumption DEF Task, Cue
<1>8. n # None /\ n.done >= m.done /\ \A c \in 1 .. m.done : n.text[c] = m.text[c]
  <2>1. n # None /\ n.done = m.done + 1 /\ \A c \in Cue : c # m.done + 1 => n.text[c] = m.text[c]
    BY <1>5, <1>6, Nothing
  <2>2. n.done >= m.done
    BY <2>1, <1>7
  <2>3. \A c \in 1 .. m.done : c \in Cue /\ c # m.done + 1
    BY <1>7
  <2> QED BY <2>1, <2>2, <2>3
<1>9. SaveCopy(t, n, "keeping", "closing")
  BY <1>3, <1>4, <1>6
<1>12. CASE hand[t] # None
  <2>1. mem' = mem
    BY <1>9, <1>12 DEF SaveCopy, Hold
  <2> QED BY <2>1, <1>1, KeptAsItIs
<1>10. CASE Valid(n) /\ hand[t] = None
  <2>1. mem' = [mem EXCEPT ![t] = n] /\ m = mem[t]
    BY <1>4, <1>9, <1>10 DEF SaveCopy, Hold, Held
  <2>2. mem'[t] = n /\ \A u \in Tab : u # t => mem'[u] = mem[u]
    BY <2>1, <1>1 DEF TypeOK
  <2>3. Kept(t)
    BY <2>1, <2>2, <1>8 DEF Kept
  <2> QED BY <2>2, <2>3, <1>1, KeptAsItIs
<1>11. CASE ~Valid(n)
  <2>1. mem' = mem
    BY <1>9, <1>11 DEF SaveCopy
  <2> QED BY <2>1, <1>1, KeptAsItIs
<1> QED BY <1>10, <1>11, <1>12

LEMMA KeptByWork ==
    ASSUME Fitting, NEW t \in Tab, Work(t)
    PROVE  \A u \in Tab : Kept(u)
<1>1. TypeOK
  BY DEF Fitting
<1>2. CASE Start(t)
  <2>1. CASE Unsaved(t)
    <3>1. holder = None /\ SaveCopy(t, mem[t], "retry", "closing")
      BY <1>2, <2>1 DEF Start
    <3>2. main[t] = "off"
      BY <3>1, <1>1, Nothing DEF TypeOK
    <3>3. SaveCopy(t, Held(t), "retry", "closing")
      BY <3>1, <3>2, HeldOff
    <3> QED BY <3>3, <1>1, KeptSaving, KeptAsItIs
  <2>2. CASE ~Unsaved(t)
    <3>1. \A u \in Tab : u # t => mem'[u] = mem[u]
      BY <1>1, <1>2, <2>2 DEF Start, TypeOK
    <3> QED BY <3>1, <1>1, <2>2, KeptByAll
  <2> QED BY <2>1, <2>2
<1>3. CASE RunSave(t)
  BY <1>1, <1>3, KeptSaving, KeptAsItIs DEF RunSave
<1>4. CASE AnswerBlock(t)
  BY <1>4, KeptAnswering
<1>5. CASE RunEnd(t)
  <2>1. mem' = mem
    BY <1>1, <1>5, KeptSaving DEF RunEnd
  <2> QED BY <2>1, <1>1, KeptAsItIs
<1>6. CASE Finish(t)
  BY <1>1, <1>6, KeptMeeting DEF Finish, Apply
<1> QED BY <1>2, <1>3, <1>4, <1>5, <1>6 DEF Work

LEMMA KeptByPersist ==
    ASSUME Fitting, NEW t \in Tab, Persist(t)
    PROVE  \A u \in Tab : Kept(u)
<1>1. TypeOK
  BY DEF Fitting
<1>2. PICK by \in {"main", "editor"} : SaveMerged(t, by) \/ SaveFails(t, by)
  BY DEF Persist
<1>3. CASE SaveFails(t, by)
  <2>1. mem' = mem
    BY <1>3 DEF SaveFails
  <2> QED BY <2>1, <1>1, KeptAsItIs
<1>4. CASE SaveMerged(t, by)
  <2>1. PICK x : mem' = [mem EXCEPT ![t] = x]
    BY <1>4, Zenon DEF SaveMerged
  <2>2. dirty' = [dirty EXCEPT ![t] = Clean]
    BY <1>4 DEF SaveMerged
  <2>3. dirty'[t] = Clean /\ \A u \in Tab : u # t => mem'[u] = mem[u]
    BY <2>1, <2>2, <1>1 DEF TypeOK
  <2> QED BY <2>3, <1>1, KeptByAll
<1> QED BY <1>2, <1>3, <1>4

LEMMA KeptByEdit ==
    ASSUME Fitting, NEW t \in Tab, Edit(t)
    PROVE  \A u \in Tab : Kept(u)
<1>1. TypeOK
  BY DEF Fitting
<1>2. CASE CommitDraft(t)
  BY <1>1, <1>2, KeptMeeting DEF CommitDraft, Apply, ApplySince
<1>3. CASE RejectDraft(t)
  BY <1>1, <1>3, KeptMeeting DEF RejectDraft, Apply, ApplySince
<1>4. CASE ~CommitDraft(t) /\ ~RejectDraft(t)
  <2>1. mem' = mem
    BY <1>4 DEF Edit, Type, SaveDraft, KeepMine, DropDraft
  <2> QED BY <2>1, <1>1, KeptAsItIs
<1> QED BY <1>2, <1>3, <1>4

\* Delete and Clear take the tab's own copy along, and its mark.
LEMMA KeptByAdministration ==
    ASSUME Fitting, NEW t \in Tab, Administer(t)
    PROVE  \A u \in Tab : Kept(u)
<1>1. TypeOK
  BY DEF Fitting
<1>2. CASE StartFix(t)
  <2>1. CASE Unsaved(t)
    <3>1. holder = None /\ SaveCopy(t, mem[t], "fixRetry", "unlock")
      BY <1>2, <2>1 DEF StartFix
    <3>2. main[t] = "off"
      BY <3>1, <1>1, Nothing DEF TypeOK
    <3>3. SaveCopy(t, Held(t), "fixRetry", "unlock")
      BY <3>1, <3>2, HeldOff
    <3> QED BY <3>3, <1>1, KeptSaving, KeptAsItIs
  <2>2. CASE ~Unsaved(t)
    <3>1. mem' = mem
      BY <1>2, <2>2 DEF StartFix
    <3> QED BY <3>1, <1>1, KeptAsItIs
  <2> QED BY <2>1, <2>2
<1>3. CASE Fix(t) \/ Import(t) \/ WriteOther(t)
  <2>1. PICK works : mem' = [mem EXCEPT ![t] = Applied(@, disk', seen[t], works, Unsaved(t))]
    BY <1>3, Zenon DEF Fix, Import, WriteOther, Apply, ApplySince
  <2> QED BY <2>1, <1>1, KeptMeeting
<1>4. CASE Delete(t) \/ Clear(t)
  <2>1. mem' = [mem EXCEPT ![t] = None] /\ dirty' = [dirty EXCEPT ![t] = Clean]
    BY <1>4 DEF Delete, Clear
  <2>2. dirty'[t] = Clean /\ \A u \in Tab : u # t => mem'[u] = mem[u]
    BY <2>1, <1>1 DEF TypeOK
  <2> QED BY <2>2, <1>1, KeptByAll
<1>5. CASE StartDelete(t) \/ ChangeFails(t) \/ Unlock(t) \/ AskHeld(t) \/ ForgoClear(t)
  <2>1. mem' = mem
    BY <1>5 DEF StartDelete, ChangeFails, Unlock, AskHeld, ForgoClear
  <2> QED BY <2>1, <1>1, KeptAsItIs
<1> QED BY <1>2, <1>3, <1>4, <1>5 DEF Administer

LEMMA KeptByNext ==
    ASSUME Fitting, [Next]_vars
    PROVE  \A u \in Tab : Kept(u)
<1>1. TypeOK
  BY DEF Fitting
<1>2. CASE UNCHANGED vars
  BY <1>1, <1>2, KeptAsItIs DEF vars
<1>3. CASE Next
  <2>1. PICK t \in Tab :
           Work(t) \/ Persist(t) \/ Edit(t) \/ Administer(t) \/ Hear(t) \/ Reload(t)
    BY <1>3 DEF Next
  <2>2. CASE Hear(t)
    <3>1. CASE MissEvent(t)
      BY <3>1, <1>1, KeptAsItIs DEF MissEvent
    <3>2. CASE HearOfClear(t) \/ Refresh(t)
      <4>1. PICK since : ApplySince(t, disk, since, main[t] \in Working, Unsaved(t))
        BY <3>2, Zenon DEF HearOfClear, Refresh, Apply
      <4>2. mem' = [mem EXCEPT ![t] = Applied(@, disk, since, main[t] \in Working, Unsaved(t))]
        BY <4>1, Zenon DEF ApplySince
      <4> QED BY <4>2, <1>1, KeptMeeting
    <3> QED BY <2>2, <3>1, <3>2 DEF Hear
  <2>3. CASE Reload(t)
    <3>1. mem' = [mem EXCEPT ![t] = disk.task] /\ dirty' = [dirty EXCEPT ![t] = Clean]
      BY <2>3 DEF Reload
    <3>2. dirty'[t] = Clean /\ \A u \in Tab : u # t => mem'[u] = mem[u]
      BY <3>1, <1>1 DEF TypeOK
    <3> QED BY <3>2, <1>1, KeptByAll
  <2> QED BY <2>1, <2>2, <2>3, KeptByWork, KeptByPersist, KeptByEdit, KeptByAdministration
<1> QED BY <1>2, <1>3

-----------------------------------------------------------------------------
(* What is stored, as TaskStore sees it.                                   *)

Shown(k) == IF k = None THEN None ELSE [done |-> k.done, text |-> k.text, conf |-> k.conf]

LEMMA ShownTask ==
    ASSUME NEW k \in Task
    PROVE  /\ Shown(k) # None /\ Shown(k) \in Content
           /\ Shown(k) = [done |-> k.done, text |-> k.text, conf |-> k.conf]
<1>1. k # None /\ Shown(k) = [done |-> k.done, text |-> k.text, conf |-> k.conf]
  BY Nothing DEF Shown
<1>2. [done |-> k.done, text |-> k.text, conf |-> k.conf] \in Content
  BY DEF Task, Content
<1> QED BY <1>1, <1>2, Nothing

\* A step that stores another revision of the same content, or nothing, is none of the store's.
LEMMA StoreStays ==
    ASSUME Shown(disk'.task) = Shown(disk.task), changes' = changes
    PROVE  UNCHANGED Store!vars
BY DEF Store!vars, Shown

LEMMA StoreAdds ==
    ASSUME disk.task = None, changes' = changes, NEW d \in 0 .. Blocks, NEW f \in Conf,
           NEW x \in [1 .. d -> Text],
           Shown(disk'.task) = [done |-> d, conf |-> f,
                                text |-> [c \in Cue |-> IF c <= d THEN x[c] ELSE None]]
    PROVE  Store!Add
BY ZenonT(20) DEF Store!Add, Store!Present, Shown, Cue

LEMMA StoreExtends ==
    ASSUME NEW k \in Task, disk.task = k, changes' = changes, k.done < Blocks, NEW v \in Text,
           Shown(disk'.task) = [Shown(k) EXCEPT !.done = @ + 1, !.text[Shown(k).done + 1] = v]
    PROVE  Store!Extend
<1>1. Shown(k) # None /\ Shown(k).done = k.done
  BY ShownTask
<1> QED BY <1>1 DEF Store!Extend, Store!Present, Shown

LEMMA StoreCorrects ==
    ASSUME NEW k \in Task, disk.task = k, changes' = changes + 1, NEW c \in 1 .. k.done,
           NEW v \in Text, Shown(disk'.task) = [Shown(k) EXCEPT !.text[c] = v]
    PROVE  Store!Correct
<1>1. Shown(k) # None /\ Shown(k).done = k.done
  BY ShownTask
<1> QED BY <1>1 DEF Store!Correct, Store!Present, Shown

LEMMA StoreConfigures ==
    ASSUME NEW k \in Task, disk.task = k, changes' = changes + 1, NEW f \in Conf,
           Shown(disk'.task) = [Shown(k) EXCEPT !.conf = f]
    PROVE  Store!Configure
<1>1. Shown(k) # None
  BY ShownTask
<1> QED BY <1>1 DEF Store!Configure, Store!Present, Shown

LEMMA StoreRemoves ==
    ASSUME NEW k \in Task, disk.task = k, changes' = changes, disk'.task = None
    PROVE  Store!Remove
<1>1. Shown(k) # None
  BY ShownTask
<1> QED BY <1>1 DEF Store!Remove, Store!Present, Shown

\* A checkpoint that is stored adds the next block or nothing: no text that was there is
\* changed, no settings come back.
LEMMA SavesExtend ==
    ASSUME Standing, NEW t \in Tab, NEW by \in {"main", "editor"}, SaveMerged(t, by)
    PROVE  disk'.task.conf = disk.task.conf /\ (Store!Extend \/ UNCHANGED Store!vars)
<1>1. PICK p \in Waiting(queue), k \in Task, n \in Task :
              /\ p.copy \in Task
              /\ Based(p) /\ Unbased(p)
              /\ dirty[t] # Clean => p.base = disk.task.revision
              /\ p = Head(queue) /\ p.by = by /\ p.tab = t /\ p.copy # None
              /\ disk'.task = k /\ Valid(k) /\ Alike(k, p.copy)
  BY MergedAgrees
<1>2. /\ TypeOK /\ QueueFits /\ disk.task \in Task /\ Valid(disk.task) /\ None \notin Task
  BY Known, Nothing
<1>3. PICK d \in Task, c \in Task : d = disk.task /\ c = p.copy
  BY <1>1, <1>2
<1>4. c.conf = d.conf /\ c.done <= d.done + 1
  <2>1. CASE dirty[t] # Clean
    BY <2>1, <1>1, <1>3 DEF Based, Agree
  <2>2. CASE dirty[t] = Clean /\ by = "main"
    BY <2>2, <1>1, <1>3 DEF Unbased, Near
  <2>3. CASE dirty[t] = Clean /\ by = "editor"
    <3>1. c.conf = d.conf /\ c.done <= d.done
      BY <2>3, <1>1, <1>3 DEF Unbased, Within
    <3>2. c.done \in Nat /\ d.done \in Nat
      BY WorkspaceAssumption DEF Task
    <3> QED BY <3>1, <3>2
  <2> QED BY <2>1, <2>2, <2>3
<1>5. /\ Valid(c) /\ d.done <= c.done /\ k = Merged(d, c) /\ changes' = changes
  <2>1. PICK q : q = Merged(disk.task, Head(queue).copy)
    OBVIOUS
  <2>2. PICK m : m = Applied(mem[t], disk', seen[t], main[t] \in Working, Unsaved(t))
    OBVIOUS
  <2>3. disk.task.done <= Head(queue).copy.done /\ disk'.task = q /\ changes' = changes
    BY <1>2, <2>1, <2>2, MergedHead
  <2>4. Granted(t, by, TRUE)
    BY DEF SaveMerged
  <2>5. Valid(Head(queue).copy)
    BY <2>4, <1>2, HeadOf
  <2> QED BY <1>1, <1>3, <2>1, <2>3, <2>5
<1>6. /\ k.done = c.done /\ k.conf = d.conf
      /\ \A i \in 1 .. d.done : k.text[i] = d.text[i]
      /\ d.done = c.done => k.text = d.text
  <2>1. Valid(d)
    BY <1>2, <1>3
  <2>2. /\ k.done = c.done /\ k.conf = c.conf
        /\ \A i \in 1 .. d.done : k.text[i] = d.text[i]
        /\ d.done = c.done => k.text = d.text
    BY <2>1, <1>5, Merges
  <2> QED BY <2>2, <1>4
<1>7. CASE d.done = c.done
  <2>1. Shown(k) = Shown(d)
    BY <1>6, <1>7, Nothing DEF Shown
  <2> QED BY <2>1, <1>1, <1>3, <1>5, <1>6, StoreStays
<1>8. CASE d.done # c.done
  <2>1. /\ d.done \in Nat /\ c.done \in 0 .. Blocks /\ Blocks \in Nat
        /\ d.text \in [Cue -> Text \cup {None}] /\ k.text \in [Cue -> Text \cup {None}]
    BY WorkspaceAssumption DEF Task
  <2>2. k.done = d.done + 1 /\ d.done < Blocks
    BY <2>1, <1>4, <1>5, <1>6, <1>8
  <2>3. PICK j \in Cue : j = d.done + 1
    BY <2>1, <2>2 DEF Cue
  <2>4. k.text[j] \in Text
    <3>1. k.text[j] # None
      BY <2>2, <2>3, <1>1 DEF Valid
    <3> QED BY <3>1, <2>1
  <2>5. PICK v \in Text : v = k.text[j]
    BY <2>4
  <2>6. PICK x : x = [d.text EXCEPT ![j] = v]
    OBVIOUS
  <2>7. k.text = x
    <3>1. ASSUME NEW i \in Cue PROVE k.text[i] = x[i]
      <4>1. CASE i = j
        BY <4>1, <2>1, <2>5, <2>6
      <4>2. CASE i # j /\ i <= d.done
        <5>1. i \in 1 .. d.done
          BY <4>2, <2>1 DEF Cue
        <5> QED BY <5>1, <4>2, <2>1, <2>6, <1>6
      <4>3. CASE i # j /\ ~(i <= d.done)
        <5>1. ~(i <= k.done)
          BY <4>3, <2>1, <2>2, <2>3 DEF Cue
        <5>2. k.text[i] = None /\ d.text[i] = None
          BY <5>1, <4>3, <1>1, <1>2, <1>3 DEF Valid
        <5> QED BY <5>2, <4>3, <2>1, <2>6
      <4> QED BY <4>1, <4>2, <4>3
    <3>2. x \in [Cue -> Text \cup {None}]
      BY <2>1, <2>6
    <3> QED BY <3>1, <3>2, <2>1
  <2>8. PICK s \in Content : s = Shown(d)
    BY ShownTask
  <2>9. s = [done |-> d.done, text |-> d.text, conf |-> d.conf]
    BY <2>8, ShownTask
  <2>10. s.done = d.done /\ s.text = d.text /\ s.conf = d.conf
    BY <2>9
  <2>11. PICK e : e = [s EXCEPT !.done = @ + 1, !.text[j] = v]
    OBVIOUS
  <2>12. e = [done |-> d.done + 1, text |-> [s.text EXCEPT ![j] = v], conf |-> d.conf]
    BY <2>9, <2>10, <2>11
  <2>13. Shown(k) = [done |-> d.done + 1, text |-> x, conf |-> d.conf]
    BY <2>2, <2>7, <1>6, ShownTask
  <2>14. Shown(k) = e
    BY <2>6, <2>10, <2>12, <2>13
  <2>15. Shown(k) = [s EXCEPT !.done = @ + 1, !.text[s.done + 1] = v]
    BY <2>3, <2>10, <2>11, <2>14
  <2>16. Shown(k) = [Shown(d) EXCEPT !.done = @ + 1, !.text[Shown(d).done + 1] = v]
    BY <2>8, <2>15
  <2>17. Store!Extend
    BY <2>2, <2>16, <1>1, <1>3, <1>5, StoreExtends
  <2> QED BY <2>17, <1>1, <1>3, <1>6
<1> QED BY <1>7, <1>8

\* A correction that is stored changes one finished block.
LEMMA CommitCorrects ==
    ASSUME Fitting, NEW t \in Tab, CommitDraft(t)
    PROVE  disk'.task.conf = disk.task.conf /\ Store!Correct
<1>1. PICK k : k = [disk.task EXCEPT !.text[draft[t].cue] = draft[t].value, !.revision = @ + 1]
  OBVIOUS
<1>2. /\ disk.task \in Task /\ draft[t] \in Draft
      /\ draft[t].cue \in Cue /\ draft[t].cue <= disk.task.done
      /\ k \in Task /\ Alike(k, disk.task) /\ Write(t, k, 1) /\ disk'.task = k
      /\ Valid(disk.task)
  <2>1. TypeOK /\ QueueFits
    BY DEF Fitting
  <2> QED BY <1>1, <2>1, CommitWrites
<1>3. PICK d \in Task, c \in Cue, v \in Text : d = disk.task /\ c = draft[t].cue /\ v = draft[t].value
  BY <1>2 DEF Draft
<1>4. /\ c <= d.done /\ k.done = d.done /\ k.conf = d.conf /\ k.text[c] = v
      /\ \A i \in Cue : i # c => k.text[i] = d.text[i]
  <2>1. Valid(d) /\ c <= d.done /\ k = Correction(d, c, v)
    BY <1>1, <1>2, <1>3 DEF Correction
  <2>2. Corrects(Correction(d, c, v), d, c, v)
    BY <2>1, Corrected
  <2>3. k.text[c] = v /\ \A i \in Cue : i # c => k.text[i] = d.text[i]
    BY <2>1, <2>2, Zenon DEF Corrects
  <2> QED BY <2>1, <2>3, <1>2, <1>3 DEF Alike
<1>5. k.text = [d.text EXCEPT ![c] = v]
  <2>1. k.text \in [Cue -> Text \cup {None}] /\ d.text \in [Cue -> Text \cup {None}]
    BY <1>2 DEF Task
  <2> QED BY <2>1, <1>4
<1>6. Shown(k) = [Shown(d) EXCEPT !.text[c] = v]
  <2>1. /\ Shown(k) = [done |-> d.done, text |-> [d.text EXCEPT ![c] = v], conf |-> d.conf]
        /\ Shown(d) = [done |-> d.done, text |-> d.text, conf |-> d.conf]
    BY <1>2, <1>4, <1>5, ShownTask
  <2> QED BY <2>1
<1>7. c \in 1 .. d.done /\ changes' = changes + 1
  <2>1. d.done \in Nat
    BY WorkspaceAssumption DEF Task
  <2> QED BY <2>1, <1>2, <1>4 DEF Cue, Write
<1> QED BY <1>2, <1>3, <1>4, <1>6, <1>7, StoreCorrects

LEMMA FixConfigures ==
    ASSUME Fitting, NEW t \in Tab, Fix(t)
    PROVE  main[t] = "fix" /\ Store!Configure
<1>1. PICK k \in Task : /\ disk.task \in Task /\ k.done = disk.task.done /\ k.text = disk.task.text
                        /\ Write(t, k, 1) /\ disk'.task = k
  BY FixWrites DEF Fitting
<1>2. PICK d \in Task : d = disk.task
  BY <1>1
<1>3. Shown(k) = [Shown(d) EXCEPT !.conf = k.conf] /\ k.conf \in Conf
  <2>1. /\ Shown(k) = [done |-> d.done, text |-> d.text, conf |-> k.conf]
        /\ Shown(d) = [done |-> d.done, text |-> d.text, conf |-> d.conf]
    BY <1>1, <1>2, ShownTask
  <2> QED BY <2>1 DEF Task
<1> QED BY <1>1, <1>2, <1>3, StoreConfigures DEF Fix, Write

LEMMA ImportAdds ==
    ASSUME Fitting, NEW t \in Tab, Import(t)
    PROVE  disk.task = None /\ Store!Add
<1>1. disk.task = None /\ changes \in Nat
  BY DEF Import, Fitting, TypeOK
<1>2. PICK d \in 0 .. Blocks, f \in Conf : \E x \in [1 .. d -> Text] :
         Write(t, [revision |-> disk.revision + 1, done |-> d, conf |-> f,
                   text |-> [c \in Cue |-> IF c <= d THEN x[c] ELSE None]], 0)
  BY DEF Import
<1>3. PICK x \in [1 .. d -> Text] :
         Write(t, [revision |-> disk.revision + 1, done |-> d, conf |-> f,
                   text |-> [c \in Cue |-> IF c <= d THEN x[c] ELSE None]], 0)
  BY <1>2
<1>4. PICK y : y = [c \in Cue |-> IF c <= d THEN x[c] ELSE None]
  OBVIOUS
<1>5. PICK k : k = [revision |-> disk.revision + 1, done |-> d, conf |-> f, text |-> y]
  OBVIOUS
<1>6. disk'.task = k /\ changes' = changes
  BY <1>1, <1>3, <1>4, <1>5 DEF Write
<1>7. disk'.task # None
  BY ImportWrites DEF Fitting
<1>8. Shown(k) = [done |-> d, conf |-> f, text |-> y]
  BY <1>5, <1>6, <1>7 DEF Shown
<1> QED BY <1>1, <1>4, <1>6, <1>8, StoreAdds

LEMMA Removes ==
    ASSUME Fitting, disk'.task = None, changes' = changes
    PROVE  Store!Remove \/ UNCHANGED Store!vars
<1>1. CASE disk.task = None
  BY <1>1, StoreStays
<1>2. CASE disk.task # None
  <2>1. disk.task \in Task
    BY <1>2 DEF Fitting, TypeOK
  <2> QED BY <2>1, StoreRemoves
<1> QED BY <1>1, <1>2

\* As long as nothing was imported, every step is one of the store's, or none, and only a
\* change of the settings changes them.
Lawful ==
    /\ [Store!Next]_(Store!vars)
    /\ (disk.task # None /\ disk'.task # None /\ disk'.task.conf # disk.task.conf)
          => \E t \in Tab : main[t] = "fix"

LEMMA SameContent ==
    ASSUME disk'.task = disk.task, changes' = changes
    PROVE  Lawful
<1>1. UNCHANGED Store!vars
  BY StoreStays
<1> QED BY <1>1 DEF Lawful

LEMMA LawfulWork ==
    ASSUME NEW t \in Tab, Work(t) \/ Hear(t) \/ Reload(t) \/ \E by \in {"main", "editor"} : SaveFails(t, by)
    PROVE  Lawful
<1>1. disk' = disk /\ changes' = changes
  BY DEF Work, Start, RunSave, AnswerBlock, RunEnd, Finish, Hear, HearOfClear, MissEvent, Refresh, Reload, SaveFails, Refused, Unwritten
<1> QED BY <1>1, SameContent

LEMMA LawfulEdit ==
    ASSUME Fitting, NEW t \in Tab, Edit(t)
    PROVE  Lawful
<1>1. CASE CommitDraft(t)
  BY <1>1, CommitCorrects DEF Lawful, Store!Next
<1>2. CASE ~CommitDraft(t)
  <2>1. disk' = disk /\ changes' = changes
    BY <1>2 DEF Edit, Type, SaveDraft, RejectDraft, KeepMine, DropDraft, Refused, Unwritten
  <2> QED BY <2>1, SameContent
<1> QED BY <1>1, <1>2

LEMMA LawfulAdministration ==
    ASSUME Fitting, NEW t \in Tab, Administer(t)
    PROVE  Lawful
<1>1. CASE Fix(t)
  BY <1>1, FixConfigures DEF Lawful, Store!Next
<1>2. CASE Import(t)
  BY <1>2, ImportAdds DEF Lawful, Store!Next
<1>3. CASE Delete(t)
  <2>1. disk'.task = None /\ changes' = changes
    BY <1>3 DEF Delete, Write, Fitting, TypeOK
  <2> QED BY <2>1, Removes DEF Lawful, Store!Next
<1>4. CASE Clear(t)
  <2>1. disk'.task = None /\ changes' = changes
    BY <1>4 DEF Clear
  <2> QED BY <2>1, Removes DEF Lawful, Store!Next
<1>5. CASE WriteOther(t)
  <2>1. disk'.task = disk.task /\ changes' = changes
    BY <1>5 DEF WriteOther, Fitting, TypeOK
  <2> QED BY <2>1, SameContent
<1>6. CASE \/ StartFix(t) \/ StartDelete(t) \/ ChangeFails(t) \/ Unlock(t)
           \/ AskHeld(t) \/ ForgoClear(t)
  <2>1. disk' = disk /\ changes' = changes
    BY <1>6 DEF StartFix, StartDelete, ChangeFails, Unlock, AskHeld, ForgoClear, Refused, Unwritten
  <2> QED BY <2>1, SameContent
<1> QED BY <1>1, <1>2, <1>3, <1>4, <1>5, <1>6 DEF Administer

LEMMA NextLawful == IInv /\ imports = 0 /\ [Next]_vars => Lawful
<1> SUFFICES ASSUME IInv, imports = 0, [Next]_vars PROVE Lawful
  OBVIOUS
<1>1. Fitting
  BY DEF IInv
<1>2. CASE UNCHANGED vars
  BY <1>2, SameContent DEF vars
<1>3. CASE Next
  <2>1. PICK t \in Tab :
           Work(t) \/ Persist(t) \/ Edit(t) \/ Administer(t) \/ Hear(t) \/ Reload(t)
    BY <1>3 DEF Next
  <2>2. ASSUME NEW by \in {"main", "editor"}, SaveMerged(t, by) PROVE Lawful
    <3>1. Standing
      BY <2>2 DEF IInv, Agreeing, Original, Standing, SaveMerged, MayMerge
    <3> QED BY <3>1, <2>2, SavesExtend DEF Lawful, Store!Next
  <2> QED BY <2>1, <2>2, <1>1, LawfulWork, LawfulEdit, LawfulAdministration DEF Persist
<1> QED BY <1>2, <1>3

-----------------------------------------------------------------------------
(* The theorems.                                                           *)

\* Everything above holds, and goes on holding.
LEMMA Invariance == Spec => []IInv
<1>1. Init => IInv
  BY InitFits, InitAgrees DEF IInv
<1>2. IInv /\ [Next]_vars => IInv'
  BY NextFits, NextAgrees DEF IInv
<1> QED BY <1>1, <1>2, PTL DEF Spec

\* Every variable has its type whatever the tabs, the user and localStorage do: each stored
\* task is a whole one (validateJob), of a revision that the workspace has reached.
THEOREM TypeCorrect == Spec => []TypeOK
<1>1. IInv => TypeOK
  BY DEF IInv, Fitting
<1> QED BY <1>1, Invariance, PTL

\* Every request for WRITE_LOCK is one that its tab waits for, at the step that asked for it,
\* and a run under way has its task at hand, in workspace.jobs or in what it holds of it. The
\* task is stored too as long as nothing was cleared: clearWorkspace asks who is at work and
\* then removes, and a run that starts in between goes on without a stored task.
THEOREM RequestsAwaited == Spec => [](QueueFits /\ RunFits)
<1>1. IInv => QueueFits /\ RunFits
  BY DEF IInv, Fitting
<1> QED BY <1>1, Invariance, PTL

\* No tab stays deaf to the storage after a clear that it has heard of (applyLatest, the storage
\* event): only one that lost the event may be ahead of the revision stored.
THEOREM NoneAhead == Spec => []NeverAhead
<1>1. IInv => NeverAhead
  BY DEF IInv, Fitting
<1> QED BY <1>1, Invariance, PTL

\* Whatever another tab stores, deletes, clears or imports, results that could not be saved
\* stay in the memory of their tab as they are (applyLatest).
THEOREM KeepsUnsaved == Spec => UnsavedKept
<1>1. IInv /\ [Next]_vars =>
         \A t \in Tab : (Unsaved(t) /\ dirty'[t] # Clean /\ mem[t] # None)
            => /\ mem'[t] # None /\ mem'[t].done >= mem[t].done
               /\ \A c \in 1 .. mem[t].done : mem'[t].text[c] = mem[t].text[c]
  BY KeptByNext DEF IInv, Kept
<1> QED BY <1>1, Invariance, PTL DEF Spec, UnsavedKept

\* Until a backup is imported, a revision names one content: a copy of the stored revision
\* shows the stored translations and settings, which the base check of persistJob relies on.
THEOREM RevisionNamesContent == Spec => [](imports = 0 => SameRevision)
<1>1. ASSUME IInv, imports = 0 PROVE SameRevision
  <2>1. TypeOK
    BY <1>1 DEF IInv, Fitting
  <2>2. ASSUME NEW t \in Tab, disk.task # None, ~Unsaved(t), mem[t].revision = disk.task.revision
        PROVE  /\ mem[t].conf = disk.task.conf
               /\ \A c \in 1 .. disk.task.done : mem[t].text[c] = disk.task.text[c]
    <3>1. CopiesAgree
      BY <1>1, <2>2 DEF IInv, Agreeing, Original, Agrees
    <3> QED BY <3>1, <2>2 DEF CopiesAgree, Agree
  <2> QED BY <2>1, <2>2 DEF SameRevision
<1> QED BY <1>1, Invariance, PTL

\* The same where nothing is imported: for every number of tabs, blocks and refused writes.
THEOREM SameRevisionWithoutImports == ASSUME MaxImports = 0 PROVE Spec => []SameRevision
<1>1. IInv => imports = 0
  BY DEF IInv, Fitting, TypeOK
<1> QED BY <1>1, Invariance, RevisionNamesContent, PTL

\* Until a backup is imported, every step of the tabs is a step of one store, or none: a
\* checkpoint adds one block or nothing, a correction changes one text, and no copy brings
\* back a text or settings that were changed (mergeJobCheckpoint under persistJob's checks).
THEOREM StoreUntilImport ==
    Spec => Store!Init /\ [][imports = 0 => [Store!Next]_(Store!vars)]_vars
<1>1. Init => Store!Init
  <2> SUFFICES ASSUME Init PROVE Store!Init
    OBVIOUS
  <2>1. PICK f \in Conf : disk = [revision |-> 1, task |-> NewTask(1, f)]
    BY DEF Init
  <2>2. PICK k : k = NewTask(1, f)
    OBVIOUS
  <2>3. k = [revision |-> 1, done |-> 0, text |-> [c \in Cue |-> None], conf |-> f]
    BY <2>2 DEF NewTask
  <2>4. disk.task = k /\ disk.task # None
    <3>1. k \in Task
      BY <2>3, WorkspaceAssumption DEF Task
    <3> QED BY <3>1, <2>1, <2>2, Nothing
  <2>5. Shown(disk.task) = [done |-> 0, text |-> [c \in Cue |-> None], conf |-> f]
    BY <2>3, <2>4 DEF Shown
  <2>6. Shown(disk.task) \in [done : {0}, text : {[c \in 1 .. Blocks |-> None]}, conf : Conf]
    BY <2>5 DEF Cue
  <2> QED BY <2>6 DEF Init, Store!Init, Shown
<1>2. IInv /\ [Next]_vars => (imports = 0 => [Store!Next]_(Store!vars))
  BY NextLawful DEF Lawful
<1> QED BY <1>1, <1>2, Invariance, PTL DEF Spec

\* Where nothing is imported, the tabs implement the single store.
THEOREM WorkspaceImplementsStore == ASSUME MaxImports = 0 PROVE Spec => ImplementsStore
<1>1. Spec => Store!Init
  BY StoreUntilImport, PTL
<1>2. IInv => imports = 0
  BY DEF IInv, Fitting, TypeOK
<1>3. IInv /\ [Next]_vars => [Store!Next]_(Store!vars)
  BY <1>2, NextLawful DEF Lawful
<1> QED BY <1>1, <1>3, Invariance, PTL DEF Spec, ImplementsStore, Store!Spec

\* Where nothing is imported, only updateJob changes the settings of a stored task.
THEOREM SettingsOnlyFixed == ASSUME MaxImports = 0 PROVE Spec => OnlyFixed
<1>1. IInv => imports = 0
  BY DEF IInv, Fitting, TypeOK
<1>2. IInv /\ [Next]_vars =>
         ((disk.task # None /\ disk'.task # None /\ disk'.task.conf # disk.task.conf)
             => \E t \in Tab : main[t] = "fix")
  BY <1>1, NextLawful DEF Lawful
<1> QED BY <1>2, Invariance, PTL DEF Spec, OnlyFixed
=============================================================================
