---------------------------- MODULE ServerProofs ----------------------------
(***************************************************************************)
(* Proofs about Server, for every set of requests, visitors and hosts and  *)
(* every limit: types, the live counts, the bounds and the rate kept in    *)
(* any window of time.  And about ClientAddress, for every way a request   *)
(* may take: whom it is charged to.                                        *)
(***************************************************************************)
EXTENDS Server, ClientAddress, ListTheorems, FiniteSetTheorems, TLAPS

USE LimiterAssumption, ServerAssumption

-----------------------------------------------------------------------------
(* Buckets.                                                                *)

\* A product of naturals is a natural.
LEMMA Product == ASSUME NEW a \in Nat, NEW b \in Nat PROVE a * b \in Nat
  OBVIOUS

\* Products grow with their first factor.
LEMMA ProductGrows ==
  ASSUME NEW a \in Nat, NEW b \in Nat, NEW c \in Nat, a <= b
  PROVE  a * c <= b * c
  <1>1. PICK d \in Nat : b = a + d
    <2>1. b - a \in Nat /\ b = a + (b - a) OBVIOUS
    <2> QED BY <2>1
  <1>2. b * c = a * c + d * c BY <1>1
  <1>3. d * c \in Nat /\ a * c \in Nat BY Product
  <1> QED BY <1>2, <1>3

\* A burst holds at least a token, and no more than a minute brings.
LEMMA BurstFacts ==
  ASSUME NEW k \in Key
  PROVE  Burst(k) \in Nat /\ Minute <= Burst(k) /\ Burst(k) <= Minute * Rpm[k]
  <1> DEFINE n == Least(Rpm[k], BurstCap)
  <1>1. n \in Nat /\ 1 <= n /\ n <= Rpm[k] /\ Rpm[k] \in Nat /\ Minute \in Nat BY DEF Least
  <1> HIDE DEF n
  <1>2. n * Minute \in Nat BY <1>1, Product
  <1>3. 1 * Minute <= n * Minute BY <1>1, ProductGrows
  <1>4. n * Minute <= Rpm[k] * Minute BY <1>1, ProductGrows
  <1>5. Burst(k) = n * Minute BY DEF Burst, n
  <1>6. Rpm[k] * Minute = Minute * Rpm[k] BY <1>1
  <1> QED BY <1>1, <1>2, <1>3, <1>4, <1>5, <1>6

\* The parts of the invariant that speak of one record.
LEMMA RecordFacts ==
  ASSUME IInv, NEW k \in Key
  PROVE  /\ quota[k] \in Quota /\ now \in Nat /\ known \subseteq Key
         /\ quota[k].tokens \in Nat /\ quota[k].last \in Nat
         /\ quota[k].seen \in Nat /\ quota[k].active \in Nat
         /\ k \in known => /\ quota[k].tokens <= Burst(k)
                           /\ quota[k].last = quota[k].seen /\ quota[k].last <= now
         /\ k \notin known => quota[k] = Blank
  <1>1. quota[k] \in Quota /\ now \in Nat /\ known \subseteq Key
    BY DEF IInv, TypeOK, LimiterTypeOK
  <1>2. /\ k \in known => /\ quota[k].tokens <= Burst(k)
                          /\ quota[k].last = quota[k].seen /\ quota[k].last <= now
        /\ k \notin known => quota[k] = Blank
    BY DEF IInv, RecordsFit
  <1> QED BY <1>1, <1>2 DEF Quota

\* What a bucket gained since it was looked at.
LEMMA GainFacts ==
  ASSUME IInv, NEW k \in known
  PROVE  (now - quota[k].last) * Rpm[k] \in Nat
  <1>1. k \in Key BY DEF IInv, TypeOK, LimiterTypeOK
  <1>2. now - quota[k].last \in Nat /\ Rpm[k] \in Nat BY <1>1, RecordFacts
  <1> QED BY <1>2, Product

\* A record that the sweep drops has no live request and a full bucket.
LEMMA SweptFacts ==
  ASSUME IInv, NEW k \in Key
  PROVE  /\ Swept \subseteq known
         /\ k \notin Swept => quota[k].active = 0 /\ Debt(k) = 0
         /\ Global \in known => Global \in Swept
  <1>1. Swept \subseteq known BY DEF Swept
  <1>2. ASSUME k \notin Swept, k \notin known PROVE quota[k].active = 0 /\ Debt(k) = 0
    BY <1>2, RecordFacts DEF Debt, Blank
  <1>3. ASSUME k \notin Swept, k \in known PROVE quota[k].active = 0 /\ Debt(k) = 0
    <2>1. quota[k].active = 0 /\ now - quota[k].last >= Idle
      BY <1>3, RecordFacts DEF Swept, Expired
    <2>2. now - quota[k].last \in Nat /\ Minute <= now - quota[k].last /\ Rpm[k] \in Nat
      BY <1>3, <2>1, RecordFacts
    <2>3. Minute * Rpm[k] <= (now - quota[k].last) * Rpm[k]
      BY <2>2, ProductGrows
    <2>4. Burst(k) <= (now - quota[k].last) * Rpm[k]
      BY <2>2, <2>3, BurstFacts, Product
    <2>5. Debt(k) = 0
      BY <1>3, <2>4, RecordFacts, GainFacts, BurstFacts DEF Debt, Greatest
    <2> QED BY <2>1, <2>5
  <1>4. Global \in known => Global \in Swept BY DEF Swept, Expired
  <1> QED BY <1>1, <1>2, <1>3, <1>4

\* Looking at a record brings it up to date and changes neither what the bucket
\* lacks nor the live count, even if the record was dropped or never there.
LEMMA RefreshedFacts ==
  ASSUME IInv, NEW k \in Key
  PROVE  /\ Refreshed(k) \in Quota
         /\ Refreshed(k).tokens = Burst(k) - Debt(k)
         /\ Debt(k) \in Nat /\ Debt(k) <= Burst(k)
         /\ Refreshed(k).last = now /\ Refreshed(k).seen = now
         /\ Refreshed(k).active = quota[k].active
  <1>1. CASE k \in Swept
    <2>1. k \in known BY <1>1, SweptFacts
    <2> DEFINE gain == (now - quota[k].last) * Rpm[k]
    <2>2. gain \in Nat BY <2>1, GainFacts
    <2>3. Refreshed(k) = [tokens |-> Least(Burst(k), quota[k].tokens + gain),
                          last |-> now, seen |-> now, active |-> quota[k].active]
      BY <1>1 DEF Refreshed, Refilled
    <2>4. Debt(k) = Greatest(0, Burst(k) - (quota[k].tokens + gain))
      BY <2>1 DEF Debt
    <2> HIDE DEF gain
    <2> QED BY <2>1, <2>2, <2>3, <2>4, RecordFacts, BurstFacts DEF Least, Greatest, Quota
  <1>2. CASE k \notin Swept
    <2>1. quota[k].active = 0 /\ Debt(k) = 0 BY <1>2, SweptFacts
    <2>2. Burst(k) \in Nat /\ now \in Nat /\ Rpm[k] \in Nat BY BurstFacts, RecordFacts
    <2>3. (now - now) * Rpm[k] = 0 BY <2>2
    <2>4. Refreshed(k) = [tokens |-> Least(Burst(k), Burst(k) + (now - now) * Rpm[k]),
                          last |-> now, seen |-> now, active |-> 0]
      BY <1>2 DEF Refreshed, Refilled, NewQuota
    <2>5. Refreshed(k) = [tokens |-> Burst(k), last |-> now, seen |-> now, active |-> 0]
      BY <2>2, <2>3, <2>4 DEF Least
    <2> QED BY <2>1, <2>2, <2>5 DEF Quota
  <1> QED BY <1>1, <1>2

\* A caller that need not wait finds a token and a free place.
LEMMA WaitFacts ==
  ASSUME IInv, NEW k \in Key, Wait(k) = 0
  PROVE  Debt(k) + Minute <= Burst(k) /\ quota[k].active < Concurrency[k]
  <1> DEFINE q == Refreshed(k)
  <1>1. q.tokens \in Int /\ q.active \in Nat /\ Minute \in Nat /\ Concurrency[k] \in Nat
    BY RefreshedFacts, RecordFacts DEF Quota
  <1>2. q.active < Concurrency[k]
    <2>1. SUFFICES ASSUME q.active >= Concurrency[k] PROVE FALSE BY <1>1
    <2>2. Wait(k) = Greatest(RateWait(q, k), 2) BY <2>1 DEF Wait, RetryAfter
    <2> QED BY <2>2 DEF Greatest
  <1>3. RateWait(q, k) = 0 BY <1>1, <1>2 DEF Wait, RetryAfter
  <1>4. q.tokens >= Minute
    <2>1. SUFFICES ASSUME q.tokens < Minute PROVE FALSE BY <1>1
    <2>2. RateWait(q, k) = Greatest(1, CeilDiv(Minute - q.tokens, Rpm[k])) BY <2>1 DEF RateWait
    <2> QED BY <1>3, <2>2 DEF Greatest
  <1> QED BY <1>1, <1>2, <1>4, RefreshedFacts, BurstFacts

-----------------------------------------------------------------------------
(* The two ways of storing records.                                        *)

\* What a bucket lacks when its record was brought up to date just now.
LEMMA DebtNow ==
  ASSUME NEW k \in Key, k \in known', quota'[k] \in Quota,
         quota'[k].last = now', quota'[k].tokens <= Burst(k), now' \in Nat
  PROVE  Debt(k)' = Burst(k) - quota'[k].tokens
  <1>1. Rpm[k] \in Nat /\ Burst(k) \in Nat /\ quota'[k].tokens \in Nat BY BurstFacts DEF Quota
  <1>2. (now' - quota'[k].last) * Rpm[k] = 0 BY <1>1
  <1>3. Debt(k)' = Greatest(0, Burst(k) - (quota'[k].tokens + (now' - quota'[k].last) * Rpm[k]))
    BY DEF Debt, Burst, Least, Greatest
  <1>4. Debt(k)' = Greatest(0, Burst(k) - quota'[k].tokens)
    BY ONLY <1>1, <1>2, <1>3
  <1> QED BY ONLY <1>1, <1>4, quota'[k].tokens <= Burst(k) DEF Greatest

\* Storing a record, new or swept, leaves what the others lack as it was; the
\* identities of S lack what D and n add to them.
LEMMA StoreFacts ==
  ASSUME IInv, now' = now, NEW S \in SUBSET Key, Keep(S),
         NEW d \in Nat, NEW n \in Nat,
         \A k \in S : Debt(k) + d <= Burst(k),
         \A k \in Key : quota'[k] =
             IF k \in S
             THEN [tokens |-> Refreshed(k).tokens - d, last |-> now, seen |-> now,
                   active |-> quota[k].active + n]
             ELSE IF k \in Swept THEN quota[k] ELSE Blank
  PROVE  /\ RecordsFit' /\ known' = Swept \cup S
         /\ known' \subseteq Key /\ nextCleanup' \in Nat /\ now' \in Nat
         /\ \A k \in Key : quota'[k] \in Quota
         /\ \A k \in Key : /\ Debt(k)' = IF k \in S THEN Debt(k) + d ELSE Debt(k)
                           /\ quota'[k].active = IF k \in S THEN quota[k].active + n
                                                 ELSE quota[k].active
  <1>1. known' = Swept \cup S BY DEF Keep
  <1>2. now \in Nat /\ nextCleanup \in Nat /\ known \subseteq Key /\ Swept \subseteq known
    BY SweptFacts DEF IInv, TypeOK, LimiterTypeOK, Swept
  <1>3. ASSUME NEW k \in Key
        PROVE  /\ quota'[k] \in Quota
               /\ Debt(k)' = IF k \in S THEN Debt(k) + d ELSE Debt(k)
               /\ quota'[k].active = IF k \in S THEN quota[k].active + n ELSE quota[k].active
               /\ IF k \in known'
                  THEN /\ quota'[k].tokens <= Burst(k)
                       /\ quota'[k].last = quota'[k].seen /\ quota'[k].last <= now'
                  ELSE quota'[k] = Blank
    <2>1. CASE k \in S
      <3>1. quota'[k] = [tokens |-> Refreshed(k).tokens - d, last |-> now, seen |-> now,
                         active |-> quota[k].active + n]
        BY <2>1
      <3>2. /\ Refreshed(k).tokens - d \in Nat /\ Refreshed(k).tokens - d <= Burst(k)
            /\ Refreshed(k).tokens = Burst(k) - Debt(k) /\ Debt(k) \in Nat
        BY <2>1, RefreshedFacts, BurstFacts
      <3>3. quota'[k] \in Quota BY <1>2, <3>1, <3>2, RecordFacts DEF Quota
      <3>4. k \in known' BY <1>1, <2>1
      <3>5. Debt(k)' = Burst(k) - quota'[k].tokens
        BY <1>2, <3>1, <3>2, <3>3, <3>4, DebtNow
      <3> QED BY <1>2, <2>1, <3>1, <3>2, <3>3, <3>4, <3>5, BurstFacts
    <2>2. CASE k \notin S /\ k \in Swept
      <3>1. quota'[k] = quota[k] /\ k \in known /\ k \in known' BY <1>1, <1>2, <2>2
      <3>2. Debt(k)' = Debt(k) BY <3>1 DEF Debt, Burst, Least, Greatest
      <3> QED BY <2>2, <3>1, <3>2, RecordFacts
    <2>3. CASE k \notin S /\ k \notin Swept
      <3>1. quota'[k] = Blank /\ k \notin known' BY <1>1, <2>3
      <3>2. quota[k].active = 0 /\ Debt(k) = 0 BY <2>3, SweptFacts
      <3>3. Debt(k)' = 0 BY <3>1 DEF Debt
      <3> QED BY <2>3, <3>1, <3>2, <3>3 DEF Blank, Quota
    <2> QED BY <2>1, <2>2, <2>3
  <1>4. known' \subseteq Key /\ nextCleanup' \in Nat /\ now' \in Nat
    BY <1>1, <1>2 DEF Keep
  <1>5. RecordsFit' BY <1>3 DEF RecordsFit, Burst, Least, Blank
  <1> QED BY <1>1, <1>3, <1>4, <1>5

\* Looking at records changes no debt and no live count.
LEMMA TouchFacts ==
  ASSUME IInv, now' = now, NEW S \in SUBSET Key, Touch(S)
  PROVE  /\ LimiterTypeOK' /\ RecordsFit' /\ known' = Swept \cup S
         /\ \A k \in Key : Debt(k)' = Debt(k) /\ quota'[k].active = quota[k].active
  <1>1. PICK d \in Nat, n \in Nat : d = 0 /\ n = 0 OBVIOUS
  <1>2. ASSUME NEW k \in S
        PROVE  /\ Refreshed(k) = [tokens |-> Refreshed(k).tokens - d, last |-> now, seen |-> now,
                                  active |-> quota[k].active + n]
               /\ Debt(k) + d <= Burst(k)
    BY <1>1, RefreshedFacts, RecordFacts, BurstFacts DEF Quota
  <1>3. \A k \in Key : quota'[k] =
             IF k \in S
             THEN [tokens |-> Refreshed(k).tokens - d, last |-> now, seen |-> now,
                   active |-> quota[k].active + n]
             ELSE IF k \in Swept THEN quota[k] ELSE Blank
    BY <1>2 DEF Touch
  <1>4. Keep(S) /\ \A k \in S : Debt(k) + d <= Burst(k) BY <1>2 DEF Touch
  <1>5. /\ IInv /\ now' = now /\ S \in SUBSET Key /\ d \in Nat /\ n \in Nat OBVIOUS
  <1>6. /\ RecordsFit' /\ known' = Swept \cup S
        /\ known' \subseteq Key /\ nextCleanup' \in Nat /\ now' \in Nat
        /\ \A k \in Key : quota'[k] \in Quota
        /\ \A k \in Key : /\ Debt(k)' = IF k \in S THEN Debt(k) + d ELSE Debt(k)
                          /\ quota'[k].active = IF k \in S THEN quota[k].active + n
                                                ELSE quota[k].active
    BY ONLY <1>3, <1>4, <1>5, StoreFacts
  <1>7. \A k \in Key : Debt(k) \in Nat /\ quota[k].active \in Nat BY RefreshedFacts, RecordFacts
  <1>8. LimiterTypeOK' BY <1>6 DEF LimiterTypeOK, Touch
  <1> QED BY <1>1, <1>6, <1>8, <1>7

\* Nobody in S has to wait.
Free(S) == \A k \in S : Wait(k) = 0

\* An admission charges every identity of S one token and one place.
LEMMA ChargeFacts ==
  ASSUME IInv, now' = now, NEW S \in SUBSET Key, Charge(S), Free(S)
  PROVE  /\ LimiterTypeOK' /\ RecordsFit' /\ known' = Swept \cup S
         /\ \A k \in Key : /\ Debt(k)' = IF k \in S THEN Debt(k) + Minute ELSE Debt(k)
                           /\ quota'[k].active = IF k \in S THEN quota[k].active + 1
                                                 ELSE quota[k].active
  <1>1. PICK d \in Nat, n \in Nat : d = Minute /\ n = 1 OBVIOUS
  <1>2. ASSUME NEW k \in S
        PROVE  /\ Taken(Refreshed(k))
                    = [tokens |-> Refreshed(k).tokens - d, last |-> now, seen |-> now,
                       active |-> quota[k].active + n]
               /\ Debt(k) + d <= Burst(k)
    <2>1. k \in Key /\ Wait(k) = 0 BY DEF Free
    <2>2. Taken(Refreshed(k)) = [tokens |-> Refreshed(k).tokens - Minute, last |-> now,
                                 seen |-> now, active |-> quota[k].active + 1]
      BY <2>1, RefreshedFacts DEF Taken
    <2>3. Debt(k) + Minute <= Burst(k) BY <2>1, WaitFacts
    <2> QED BY <1>1, <2>2, <2>3
  <1>3. \A k \in Key : quota'[k] =
             IF k \in S
             THEN [tokens |-> Refreshed(k).tokens - d, last |-> now, seen |-> now,
                   active |-> quota[k].active + n]
             ELSE IF k \in Swept THEN quota[k] ELSE Blank
    BY <1>2 DEF Charge
  <1>4. Keep(S) /\ \A k \in S : Debt(k) + d <= Burst(k) BY <1>2 DEF Charge
  <1>5. /\ IInv /\ now' = now /\ S \in SUBSET Key /\ d \in Nat /\ n \in Nat OBVIOUS
  <1>6. /\ RecordsFit' /\ known' = Swept \cup S
        /\ known' \subseteq Key /\ nextCleanup' \in Nat /\ now' \in Nat
        /\ \A k \in Key : quota'[k] \in Quota
        /\ \A k \in Key : /\ Debt(k)' = IF k \in S THEN Debt(k) + d ELSE Debt(k)
                          /\ quota'[k].active = IF k \in S THEN quota[k].active + n
                                                ELSE quota[k].active
    BY ONLY <1>3, <1>4, <1>5, StoreFacts
  <1>7. LimiterTypeOK' BY <1>6 DEF LimiterTypeOK, Charge
  <1> QED BY <1>1, <1>6, <1>7

\* Giving places back changes no debt.
LEMMA ReleaseFacts ==
  ASSUME IInv, now' = now, NEW S \in SUBSET Key, Release(S), \A k \in S : quota[k].active > 0,
         S \subseteq known
  PROVE  /\ LimiterTypeOK' /\ RecordsFit' /\ known' = known
         /\ \A k \in Key : /\ Debt(k)' = Debt(k)
                           /\ quota'[k].active = IF k \in S THEN quota[k].active - 1
                                                 ELSE quota[k].active
  <1>1. known' = known /\ nextCleanup' = nextCleanup BY DEF Release
  <1>2. ASSUME NEW k \in Key
        PROVE  /\ quota'[k] \in Quota
               /\ quota'[k].tokens = quota[k].tokens /\ quota'[k].last = quota[k].last
               /\ quota'[k].seen = quota[k].seen
               /\ quota'[k].active = IF k \in S THEN quota[k].active - 1 ELSE quota[k].active
               /\ k \notin S => quota'[k] = quota[k]
    BY RecordFacts DEF Release, Quota
  <1>3. \A k \in Key : Debt(k)' = Debt(k)
    BY <1>1, <1>2 DEF Debt, Burst, Least, Greatest
  <1>4. quota' \in [Key -> Quota] BY <1>2 DEF Release
  <1>5. LimiterTypeOK' BY <1>1, <1>4 DEF IInv, TypeOK, LimiterTypeOK
  <1>6. RecordsFit'
    <2>1. \A k \in Key : IF k \in known
                         THEN /\ quota'[k].tokens <= Burst(k)
                              /\ quota'[k].last = quota'[k].seen /\ quota'[k].last <= now'
                         ELSE quota'[k] = Blank
      BY <1>2, RecordFacts
    <2> QED BY <1>1, <2>1 DEF RecordsFit, Burst, Least, Blank
  <1> QED BY <1>1, <1>2, <1>3, <1>5, <1>6

-----------------------------------------------------------------------------
(* Who holds a place.                                                      *)

LEMMA HoldersFinite ==
  ASSUME NEW k \in Key
  PROVE  /\ IsFiniteSet(Holders(k)) /\ Cardinality(Holders(k)) \in Nat
         /\ IsFiniteSet(Holders(k)') /\ Cardinality(Holders(k))' \in Nat
  <1>1. Holders(k) \subseteq Request /\ Holders(k)' \subseteq Request BY DEF Holders
  <1> QED BY <1>1, FS_Subset, FS_CardinalityType

\* A request that comes to hold a place, or no longer does, counts for one.
LEMMA HoldersJoin ==
  ASSUME NEW k \in Key, NEW r, r \notin Holders(k), Holders(k)' = Holders(k) \cup {r}
  PROVE  Cardinality(Holders(k))' = Cardinality(Holders(k)) + 1
  <1>1. IsFiniteSet(Holders(k)) BY HoldersFinite
  <1>2. Cardinality(Holders(k) \cup {r}) = Cardinality(Holders(k)) + 1
    BY ONLY <1>1, r \notin Holders(k), FS_AddElement
  <1> QED BY <1>2

LEMMA HoldersLeave ==
  ASSUME NEW k \in Key, NEW r \in Holders(k), Holders(k)' = Holders(k) \ {r}
  PROVE  /\ Cardinality(Holders(k))' = Cardinality(Holders(k)) - 1
         /\ Cardinality(Holders(k)) > 0
  <1>1. IsFiniteSet(Holders(k)) BY HoldersFinite
  <1>2. Cardinality(Holders(k) \ {r}) = Cardinality(Holders(k)) - 1
    BY ONLY <1>1, r \in Holders(k), FS_RemoveElement
  <1>3. Cardinality(Holders(k))' = Cardinality(Holders(k)) - 1 BY <1>2
  <1>4. Cardinality(Holders(k)) \in Nat /\ Cardinality(Holders(k))' \in Nat BY HoldersFinite
  <1> QED BY <1>3, <1>4

\* The holders of each identity after each kind of step.
LEMMA ArriveHolders ==
  ASSUME IInv, NEW r \in Request, NEW a \in IP, Arrive(r, a), NEW k \in Key
  PROVE  /\ r \notin Holders(k) \/ k \notin {Global, a}
         /\ Holders(k)' = IF k \in {Global, a} THEN Holders(k) \cup {r} ELSE Holders(k)
  BY DEF Arrive, Holders, IInv, HandlersFit, TypeOK, Key

LEMMA ForwardHolders ==
  ASSUME IInv, NEW r \in Request, NEW h \in Host, Forward(r, h), NEW k \in Key
  PROVE  /\ r \notin Holders(h)
         /\ Holders(k)' = IF k = h THEN Holders(k) \cup {r} ELSE Holders(k)
  BY DEF Forward, Holders, IInv, HandlersFit, TypeOK, Key

LEMMA LeaveHostHolders ==
  ASSUME IInv, NEW r \in Request, LeaveHost(r), NEW k \in Key
  PROVE  /\ host[r] \in Host /\ r \in Holders(host[r])
         /\ Holders(k)' = IF k = host[r] THEN Holders(k) \ {r} ELSE Holders(k)
  BY DEF LeaveHost, Holders, IInv, HandlersFit, TypeOK, Key

LEMMA ReturnHolders ==
  ASSUME IInv, NEW r \in Request, Return(r), NEW k \in Key
  PROVE  /\ ip[r] \in IP /\ r \in Holders(ip[r]) /\ r \in Holders(Global)
         /\ Holders(k)' = IF k \in {Global, ip[r]} THEN Holders(k) \ {r} ELSE Holders(k)
  BY DEF Return, Holders, IInv, HandlersFit, TypeOK, Key

\* Steps that move no request between holding and not holding.
LEMMA SameHolders ==
  ASSUME IInv, NEW k \in Key,
         handlers' = handlers \/ \E r \in Request, h \in Host : RefuseForward(r, h)
  PROVE  Holders(k)' = Holders(k)
  <1>1. CASE handlers' = handlers BY <1>1 DEF handlers, Holders
  <1>2. ASSUME NEW r \in Request, NEW h \in Host, RefuseForward(r, h)
        PROVE  Holders(k)' = Holders(k)
    BY <1>2 DEF RefuseForward, Holders, IInv, HandlersFit, TypeOK
  <1> QED BY <1>1, <1>2

-----------------------------------------------------------------------------
(* The inductive invariant.                                                *)

\* When each count changes by as much as its holders do, and records with
\* holders stay known, CountsAgree is kept.
LEMMA CountsKept ==
  ASSUME IInv,
         \A k \in Key :
            /\ quota'[k].active - quota[k].active
                  = Cardinality(Holders(k))' - Cardinality(Holders(k))
            /\ quota'[k].active \in Nat
            /\ Holders(k)' # {} => k \in known'
  PROVE  CountsAgree'
  <1>1. ASSUME NEW k \in Key PROVE quota'[k].active = Cardinality(Holders(k))'
    <2>1. quota[k].active = Cardinality(Holders(k)) /\ quota[k].active \in Nat
      BY RecordFacts DEF IInv, CountsAgree
    <2>2. Cardinality(Holders(k))' \in Nat BY HoldersFinite
    <2>3. /\ quota'[k].active - quota[k].active
               = Cardinality(Holders(k))' - Cardinality(Holders(k))
          /\ quota'[k].active \in Nat
      OBVIOUS
    <2> QED BY ONLY <2>1, <2>2, <2>3
  <1> QED BY <1>1 DEF CountsAgree

\* A held record survives the sweep.
LEMMA HeldKept ==
  ASSUME IInv, NEW k \in Key, Holders(k) # {}
  PROVE  k \in Swept /\ quota[k].active > 0
  <1>1. k \in known /\ quota[k].active = Cardinality(Holders(k)) BY DEF IInv, CountsAgree
  <1>2. Cardinality(Holders(k)) # 0 BY HoldersFinite, FS_EmptySet
  <1>3. quota[k].active \in Nat BY RecordFacts
  <1> QED BY <1>1, <1>2, <1>3, SweptFacts

LEMMA InitInv == Init => IInv
  <1> SUFFICES ASSUME Init PROVE IInv OBVIOUS
  <1>1. TypeOK
    BY DEF Init, LimiterInit, TypeOK, LimiterTypeOK, Quota, Blank
  <1>2. RecordsFit BY DEF Init, LimiterInit, RecordsFit
  <1>3. HandlersFit BY DEF Init, HandlersFit
  <1>4. CountsAgree
    <2>1. \A k \in Key : Holders(k) = {}
      BY DEF Init, Holders, Key
    <2>2. Cardinality({}) = 0 BY FS_EmptySet
    <2> QED BY <2>1, <2>2 DEF Init, LimiterInit, Blank, CountsAgree
  <1> QED BY <1>1, <1>2, <1>3, <1>4 DEF IInv

\* Admissions: what they do to the state, and that they keep the invariant.
LEMMA ArriveInv ==
  ASSUME IInv, NEW r \in Request, NEW a \in IP, Arrive(r, a)
  PROVE  IInv'
  <1> DEFINE S == {Global, a}
  <1>1. now' = now /\ S \in SUBSET Key /\ Charge(S) /\ Free(S)
    BY DEF Arrive, AdmitRequest, Key, Free
  <1> HIDE DEF S
  <1>2. /\ LimiterTypeOK' /\ RecordsFit' /\ known' = Swept \cup S
        /\ \A k \in Key : quota'[k].active = IF k \in S THEN quota[k].active + 1
                                             ELSE quota[k].active
    BY <1>1, ChargeFacts
  <1>3. TypeOK'
    <2>1. pc' \in [Request -> {"off", "admitted", "relaying", "leaving"}]
          /\ ip' \in [Request -> IP \cup {NoIP}] /\ host' = host /\ from' = from
      BY DEF Arrive, IInv, TypeOK
    <2>2. taken' \in [Key -> Nat] BY DEF Arrive, Counted, IInv, TypeOK
    <2> QED BY <1>2, <2>1, <2>2 DEF IInv, TypeOK
  <1>4. HandlersFit' BY DEF Arrive, IInv, HandlersFit, TypeOK, Key
  <1>5. CountsAgree'
    <2>1. ASSUME NEW k \in Key
          PROVE  /\ quota'[k].active - quota[k].active
                       = Cardinality(Holders(k))' - Cardinality(Holders(k))
                 /\ quota'[k].active \in Nat
                 /\ Holders(k)' # {} => k \in known'
      <3>1. quota[k].active \in Nat /\ Cardinality(Holders(k)) \in Nat
            /\ Cardinality(Holders(k))' \in Nat
        BY RecordFacts, HoldersFinite
      <3>2. CASE k \in S
        <4>1. r \notin Holders(k) /\ Holders(k)' = Holders(k) \cup {r}
          BY <3>2, ArriveHolders DEF S
        <4>2. Cardinality(Holders(k))' = Cardinality(Holders(k)) + 1 BY <4>1, HoldersJoin
        <4> QED BY <1>2, <3>1, <3>2, <4>2
      <3>3. CASE k \notin S
        <4>1. Holders(k)' = Holders(k) BY <3>3, ArriveHolders DEF S
        <4>2. Cardinality(Holders(k))' = Cardinality(Holders(k)) BY <4>1
        <4> QED BY <1>2, <3>1, <3>3, <4>1, <4>2, HeldKept
      <3> QED BY <3>2, <3>3
    <2> QED BY <2>1, CountsKept
  <1> QED BY <1>2, <1>3, <1>4, <1>5 DEF IInv

LEMMA ForwardInv ==
  ASSUME IInv, NEW r \in Request, NEW h \in Host, Forward(r, h)
  PROVE  IInv'
  <1> DEFINE S == {h}
  <1>1. now' = now /\ S \in SUBSET Key /\ Charge(S) /\ Free(S)
    BY DEF Forward, AdmitHost, Key, Free
  <1> HIDE DEF S
  <1>2. /\ LimiterTypeOK' /\ RecordsFit' /\ known' = Swept \cup S
        /\ \A k \in Key : quota'[k].active = IF k \in S THEN quota[k].active + 1
                                             ELSE quota[k].active
    BY <1>1, ChargeFacts
  <1>3. TypeOK'
    <2>1. pc' \in [Request -> {"off", "admitted", "relaying", "leaving"}]
          /\ host' \in [Request -> Host \cup {NoIP}] /\ ip' = ip /\ from' = from
      BY DEF Forward, IInv, TypeOK
    <2>2. taken' \in [Key -> Nat] BY DEF Forward, Counted, IInv, TypeOK
    <2> QED BY <1>2, <2>1, <2>2 DEF IInv, TypeOK
  <1>4. HandlersFit' BY DEF Forward, IInv, HandlersFit, TypeOK, Key
  <1>5. CountsAgree'
    <2>1. ASSUME NEW k \in Key
          PROVE  /\ quota'[k].active - quota[k].active
                       = Cardinality(Holders(k))' - Cardinality(Holders(k))
                 /\ quota'[k].active \in Nat
                 /\ Holders(k)' # {} => k \in known'
      <3>1. quota[k].active \in Nat /\ Cardinality(Holders(k)) \in Nat
            /\ Cardinality(Holders(k))' \in Nat
        BY RecordFacts, HoldersFinite
      <3>2. CASE k \in S
        <4>1. r \notin Holders(k) /\ Holders(k)' = Holders(k) \cup {r}
          BY <3>2, ForwardHolders DEF S
        <4>2. Cardinality(Holders(k))' = Cardinality(Holders(k)) + 1 BY <4>1, HoldersJoin
        <4> QED BY <1>2, <3>1, <3>2, <4>2
      <3>3. CASE k \notin S
        <4>1. Holders(k)' = Holders(k) BY <3>3, ForwardHolders DEF S
        <4>2. Cardinality(Holders(k))' = Cardinality(Holders(k)) BY <4>1
        <4> QED BY <1>2, <3>1, <3>3, <4>1, <4>2, HeldKept
      <3> QED BY <3>2, <3>3
    <2> QED BY <2>1, CountsKept
  <1> QED BY <1>2, <1>3, <1>4, <1>5 DEF IInv

\* The ends of requests.
LEMMA LeaveHostInv ==
  ASSUME IInv, NEW r \in Request, LeaveHost(r)
  PROVE  IInv'
  <1> DEFINE S == {host[r]}
  <1>1. now' = now /\ S \in SUBSET Key /\ Release(S) /\ \A k \in S : r \in Holders(k)
    BY LeaveHostHolders DEF LeaveHost, Key
  <1> HIDE DEF S
  <1>2. \A k \in S : k \in Key /\ quota[k].active > 0 /\ k \in known
    <2>1. \A k \in S : k \in Key /\ Holders(k) # {} BY <1>1
    <2> QED BY <2>1, HeldKept, SweptFacts
  <1>3. /\ LimiterTypeOK' /\ RecordsFit' /\ known' = known
        /\ \A k \in Key : quota'[k].active = IF k \in S THEN quota[k].active - 1
                                             ELSE quota[k].active
    <2>1. S \subseteq known /\ \A k \in S : quota[k].active > 0 BY <1>2
    <2> QED BY <1>1, <2>1, ReleaseFacts
  <1>4. TypeOK' BY <1>3 DEF LeaveHost, IInv, TypeOK
  <1>5. HandlersFit' BY DEF LeaveHost, IInv, HandlersFit, TypeOK, Key
  <1>6. CountsAgree'
    <2>1. ASSUME NEW k \in Key
          PROVE  /\ quota'[k].active - quota[k].active
                       = Cardinality(Holders(k))' - Cardinality(Holders(k))
                 /\ quota'[k].active \in Nat
                 /\ Holders(k)' # {} => k \in known'
      <3>1. quota[k].active \in Nat /\ Cardinality(Holders(k)) \in Nat
            /\ Cardinality(Holders(k))' \in Nat
        BY RecordFacts, HoldersFinite
      <3>2. CASE k \in S
        <4>1. r \in Holders(k) /\ Holders(k)' = Holders(k) \ {r}
          BY <1>1, <3>2, LeaveHostHolders DEF S
        <4>2. Cardinality(Holders(k))' = Cardinality(Holders(k)) - 1 BY <4>1, HoldersLeave
        <4> QED BY <1>2, <1>3, <3>1, <3>2, <4>2
      <3>3. CASE k \notin S
        <4>1. Holders(k)' = Holders(k) BY <3>3, LeaveHostHolders DEF S
        <4>2. Cardinality(Holders(k))' = Cardinality(Holders(k)) BY <4>1
        <4> QED BY <1>3, <3>1, <3>3, <4>1, <4>2, HeldKept, SweptFacts
      <3> QED BY <3>2, <3>3
    <2> QED BY <2>1, CountsKept
  <1> QED BY <1>3, <1>4, <1>5, <1>6 DEF IInv

LEMMA ReturnInv ==
  ASSUME IInv, NEW r \in Request, Return(r)
  PROVE  IInv'
  <1> DEFINE S == {Global, ip[r]}
  <1>1. now' = now /\ S \in SUBSET Key /\ Release(S) /\ \A k \in S : r \in Holders(k)
    BY ReturnHolders DEF Return, Key
  <1> HIDE DEF S
  <1>2. \A k \in S : k \in Key /\ quota[k].active > 0 /\ k \in known
    <2>1. \A k \in S : k \in Key /\ Holders(k) # {} BY <1>1
    <2> QED BY <2>1, HeldKept, SweptFacts
  <1>3. /\ LimiterTypeOK' /\ RecordsFit' /\ known' = known
        /\ \A k \in Key : quota'[k].active = IF k \in S THEN quota[k].active - 1
                                             ELSE quota[k].active
    <2>1. S \subseteq known /\ \A k \in S : quota[k].active > 0 BY <1>2
    <2> QED BY <1>1, <2>1, ReleaseFacts
  <1>4. TypeOK' BY <1>3 DEF Return, IInv, TypeOK
  <1>5. HandlersFit' BY DEF Return, IInv, HandlersFit, TypeOK, Key
  <1>6. CountsAgree'
    <2>1. ASSUME NEW k \in Key
          PROVE  /\ quota'[k].active - quota[k].active
                       = Cardinality(Holders(k))' - Cardinality(Holders(k))
                 /\ quota'[k].active \in Nat
                 /\ Holders(k)' # {} => k \in known'
      <3>1. quota[k].active \in Nat /\ Cardinality(Holders(k)) \in Nat
            /\ Cardinality(Holders(k))' \in Nat
        BY RecordFacts, HoldersFinite
      <3>2. CASE k \in S
        <4>1. r \in Holders(k) /\ Holders(k)' = Holders(k) \ {r}
          BY <1>1, <3>2, ReturnHolders DEF S
        <4>2. Cardinality(Holders(k))' = Cardinality(Holders(k)) - 1 BY <4>1, HoldersLeave
        <4> QED BY <1>2, <1>3, <3>1, <3>2, <4>2
      <3>3. CASE k \notin S
        <4>1. Holders(k)' = Holders(k) BY <3>3, ReturnHolders DEF S
        <4>2. Cardinality(Holders(k))' = Cardinality(Holders(k)) BY <4>1
        <4> QED BY <1>3, <3>1, <3>3, <4>1, <4>2, HeldKept, SweptFacts
      <3> QED BY <3>2, <3>3
    <2> QED BY <2>1, CountsKept
  <1> QED BY <1>3, <1>4, <1>5, <1>6 DEF IInv

\* Refusals.
LEMMA RefusalInv ==
  ASSUME IInv, NEW S \in SUBSET Key, Touch(S),
         \/ UNCHANGED <<now, handlers, from, taken>>
         \/ \E r \in Request, h \in Host : RefuseForward(r, h)
  PROVE  IInv'
  <1>1. UNCHANGED <<now, ip, host, from, taken>> BY DEF RefuseForward, handlers
  <1>2. /\ LimiterTypeOK' /\ RecordsFit' /\ known' = Swept \cup S
        /\ \A k \in Key : quota'[k].active = quota[k].active
    BY <1>1, TouchFacts
  <1>3. /\ pc' \in [Request -> {"off", "admitted", "relaying", "leaving"}]
        /\ HandlersFit'
    <2>1. CASE UNCHANGED handlers
      BY <2>1 DEF handlers, IInv, TypeOK, HandlersFit
    <2>2. ASSUME NEW r \in Request, NEW h \in Host, RefuseForward(r, h)
          PROVE  /\ pc' \in [Request -> {"off", "admitted", "relaying", "leaving"}]
                 /\ HandlersFit'
      BY <2>2 DEF RefuseForward, IInv, TypeOK, HandlersFit
    <2> QED BY <2>1, <2>2 DEF handlers
  <1>4. TypeOK' BY <1>1, <1>2, <1>3 DEF IInv, TypeOK
  <1>5. CountsAgree'
    <2>1. ASSUME NEW k \in Key
          PROVE  /\ quota'[k].active = Cardinality(Holders(k))'
                 /\ Holders(k)' # {} => k \in known'
      <3>1. Holders(k)' = Holders(k) BY SameHolders DEF handlers
      <3>2. Cardinality(Holders(k))' = Cardinality(Holders(k)) BY <3>1
      <3>3. quota[k].active = Cardinality(Holders(k)) BY DEF IInv, CountsAgree
      <3>4. Holders(k) # {} => k \in Swept BY HeldKept
      <3> QED BY <1>2, <3>1, <3>2, <3>3, <3>4
    <2> QED BY <2>1 DEF CountsAgree
  <1> QED BY <1>2, <1>3, <1>4, <1>5 DEF IInv

LEMMA TickInv == ASSUME IInv, Tick PROVE IInv'
  <1>1. now \in Nat /\ now' = now + 1 BY DEF Tick, IInv, TypeOK, LimiterTypeOK
  <1>2. TypeOK' BY <1>1 DEF Tick, limiter, handlers, IInv, TypeOK, LimiterTypeOK
  <1>3. RecordsFit'
    <2>1. \A k \in Key : IF k \in known
                         THEN /\ quota[k].tokens <= Burst(k)
                              /\ quota[k].last = quota[k].seen /\ quota[k].last <= now'
                         ELSE quota[k] = Blank
      BY <1>1, RecordFacts
    <2> QED BY <2>1 DEF Tick, limiter, RecordsFit, Burst, Least, Blank
  <1>4. HandlersFit' BY DEF Tick, handlers, IInv, HandlersFit
  <1>5. CountsAgree'
    <2>1. \A k \in Key : Holders(k)' = Holders(k) BY DEF Tick, handlers, Holders
    <2> QED BY <2>1 DEF Tick, limiter, IInv, CountsAgree
  <1> QED BY <1>2, <1>3, <1>4, <1>5 DEF IInv

\* Every refusal is a Touch, of some set of identities.
LEMMA RefusalTouches ==
  /\ \A a \in IP : Refuse(a) => \E S \in SUBSET Key : Touch(S)
  /\ \A r \in Request, h \in Host : RefuseForward(r, h) => \E S \in SUBSET Key : Touch(S)
  <1>1. ASSUME NEW a \in IP, Refuse(a) PROVE \E S \in SUBSET Key : Touch(S)
    <2>1. {Global} \in SUBSET Key /\ {Global, a} \in SUBSET Key BY DEF Key
    <2> QED BY <1>1, <2>1 DEF Refuse, RefuseRequest
  <1>2. ASSUME NEW r \in Request, NEW h \in Host, RefuseForward(r, h)
        PROVE  \E S \in SUBSET Key : Touch(S)
    <2>1. {} \in SUBSET Key /\ {h} \in SUBSET Key BY DEF Key
    <2> QED BY <1>2, <2>1 DEF RefuseForward, RefuseHost
  <1> QED BY <1>1, <1>2

LEMMA StepInv == IInv /\ [Next]_vars => IInv'
  <1> SUFFICES ASSUME IInv, [Next]_vars PROVE IInv' OBVIOUS
  <1>1. ASSUME NEW r \in Request, LeaveHost(r) PROVE IInv' BY <1>1, LeaveHostInv
  <1>2. ASSUME NEW r \in Request, Return(r) PROVE IInv' BY <1>2, ReturnInv
  <1>3. ASSUME NEW r \in Request, NEW a \in IP, Arrive(r, a) PROVE IInv' BY <1>3, ArriveInv
  <1>4. ASSUME NEW r \in Request, NEW h \in Host, Forward(r, h) PROVE IInv' BY <1>4, ForwardInv
  <1>5. ASSUME NEW r \in Request, NEW h \in Host, RefuseForward(r, h) PROVE IInv'
    <2>1. PICK S \in SUBSET Key : Touch(S) BY <1>5, RefusalTouches
    <2> QED BY <1>5, <2>1, RefusalInv
  <1>6. ASSUME NEW a \in IP, Refuse(a) PROVE IInv'
    <2>1. PICK S \in SUBSET Key : Touch(S) BY <1>6, RefusalTouches
    <2>2. UNCHANGED <<now, handlers, from, taken>> BY <1>6 DEF Refuse
    <2> QED BY <2>1, <2>2, RefusalInv
  <1>7. CASE Tick BY <1>7, TickInv
  <1>8. CASE UNCHANGED vars
    <2>1. \A k \in Key : Holders(k)' = Holders(k) BY <1>8 DEF vars, handlers, Holders
    <2>2. CountsAgree' BY <1>8, <2>1 DEF vars, limiter, IInv, CountsAgree
    <2>3. RecordsFit' BY <1>8 DEF vars, limiter, IInv, RecordsFit, Burst, Least, Blank
    <2> QED BY <1>8, <2>2, <2>3
         DEF vars, limiter, handlers, IInv, TypeOK, LimiterTypeOK, HandlersFit
  <1> QED BY <1>1, <1>2, <1>3, <1>4, <1>5, <1>6, <1>7, <1>8 DEF Next

\* The inductive invariant holds throughout.
THEOREM Invariance == Spec => []IInv
  <1> QED BY InitInv, StepInv, PTL DEF Spec

\* Every variable keeps its type: above all no bucket and no live count goes
\* below zero.
THEOREM Typing == Spec => []TypeOK
  <1>1. IInv => TypeOK BY DEF IInv
  <1> QED BY <1>1, Invariance, PTL

\* Every live count is the number of requests that hold a place, and their
\* records are not dropped.
THEOREM CountsAreTrue == Spec => []CountsAgree
  <1>1. IInv => CountsAgree BY DEF IInv
  <1> QED BY <1>1, Invariance, PTL

-----------------------------------------------------------------------------
(* The wait that a refused caller is told.                                 *)

\* Rounded up, a quotient is the least number that reaches the dividend.
LEMMA CeilDivFacts ==
  ASSUME NEW a \in Nat \ {0}, NEW b \in Nat \ {0}
  PROVE  /\ CeilDiv(a, b) \in Nat \ {0}
         /\ a <= CeilDiv(a, b) * b /\ (CeilDiv(a, b) - 1) * b < a
  <1>1. PICK c \in Nat : c = a + b - 1
    OBVIOUS
  <1>2. c \div b \in Int /\ b * (c \div b) <= c /\ c < b * (c \div b) + b
    BY SMT
  <1>3. PICK n \in Int : n = c \div b
    BY <1>2
  <1>4. b * n <= c /\ c < b * n + b
    BY <1>2, <1>3
  <1>5. n >= 1
    <2>1. CASE n <= 0
      <3>1. PICK m \in Nat : n = 0 - m
        <4>1. 0 - n \in Nat /\ n = 0 - (0 - n)
          BY <2>1
        <4> QED BY <4>1
      <3>2. b * m \in Nat /\ b * n = 0 - b * m
        BY <3>1
      <3> QED BY <3>2, <1>1, <1>4
    <2> QED BY <2>1
  <1>6. b * n = n * b /\ (n - 1) * b = n * b - b /\ n * b \in Int
    OBVIOUS
  <1>7. CeilDiv(a, b) = n
    BY <1>1, <1>3 DEF CeilDiv
  <1> QED BY <1>1, <1>4, <1>5, <1>6, <1>7

\* A bucket that holds t of its burst b and gains r a second reaches a token of m after
\* the wait w, and no second earlier.
LEMMA WaitReaches ==
  ASSUME NEW t \in Nat, NEW b \in Nat, NEW m \in Nat, NEW r \in Nat \ {0}, m <= b, t <= b,
         NEW w, w = IF t < m THEN Greatest(1, CeilDiv(m - t, r)) ELSE 0
  PROVE  /\ Least(b, t + w * r) >= m
         /\ w > 0 => Least(b, t + (w - 1) * r) < m
  <1>1. CASE t < m
    <2>1. PICK a \in Nat \ {0} : a = m - t
      BY <1>1
    <2>2. /\ CeilDiv(a, r) \in Nat \ {0}
          /\ a <= CeilDiv(a, r) * r /\ (CeilDiv(a, r) - 1) * r < a
      BY CeilDivFacts
    <2>3. w \in Nat \ {0} /\ a <= w * r /\ (w - 1) * r < a
      BY <1>1, <2>1, <2>2 DEF Greatest
    <2>4. w * r \in Int /\ (w - 1) * r \in Int
      BY <2>3
    <2> QED BY <2>1, <2>3, <2>4 DEF Least
  <1>2. CASE ~(t < m)
    <2>1. w = 0 /\ w * r = 0
      BY <1>2
    <2> QED BY <1>2, <2>1 DEF Least
  <1> QED BY <1>1, <1>2

\* Retry-After is exact: after that many seconds the bucket has a token again, and one
\* second earlier it has not (retryAfter).
THEOREM WaitIsExact == Spec => []WaitExact
  <1>1. ASSUME IInv, NEW k \in known
        PROVE  LET q == Refreshed(k)
                   w == RateWait(q, k)
                   after(d) == Least(Burst(k), q.tokens + d * Rpm[k])
               IN  after(w) >= Minute /\ (w > 0 => after(w - 1) < Minute)
    <2>1. k \in Key
      BY <1>1 DEF IInv, TypeOK, LimiterTypeOK
    <2>2. PICK t \in Nat : t = Refreshed(k).tokens /\ t <= Burst(k)
      BY <1>1, <2>1, RefreshedFacts, BurstFacts DEF Quota
    <2>3. PICK b \in Nat, m \in Nat, r \in Nat \ {0} :
             b = Burst(k) /\ m = Minute /\ r = Rpm[k] /\ m <= b
      BY <2>1, BurstFacts
    <2>4. PICK w : w = IF t < m THEN Greatest(1, CeilDiv(m - t, r)) ELSE 0
      OBVIOUS
    <2>5. /\ Least(b, t + w * r) >= m
          /\ w > 0 => Least(b, t + (w - 1) * r) < m
      BY <2>2, <2>3, <2>4, WaitReaches
    <2>6. w = RateWait(Refreshed(k), k)
      BY <2>2, <2>3, <2>4 DEF RateWait
    <2> QED BY <2>2, <2>3, <2>5, <2>6
  <1>2. IInv => WaitExact
    BY <1>1 DEF WaitExact
  <1> QED BY <1>2, Invariance, PTL

-----------------------------------------------------------------------------
(* What each step does to debts and live counts.                           *)

\* With the clock, a debt drains.
LEMMA DebtDrains ==
  ASSUME IInv, Tick, NEW k \in Key
  PROVE  Debt(k)' = IF Debt(k) > Rpm[k] THEN Debt(k) - Rpm[k] ELSE 0
  <1>1. /\ now' = now + 1 /\ now \in Nat /\ known' = known /\ quota' = quota
        /\ Rpm[k] \in Nat /\ Burst(k) \in Nat
    BY BurstFacts DEF Tick, limiter, IInv, TypeOK, LimiterTypeOK
  <1>2. CASE k \in known
    <2> DEFINE gain == (now - quota[k].last) * Rpm[k]
    <2>1. quota[k].last \in Nat /\ quota[k].tokens \in Nat /\ gain \in Nat
      BY <1>2, RecordFacts, GainFacts
    <2>2. (now' - quota'[k].last) * Rpm[k] = gain + Rpm[k] BY <1>1, <2>1
    <2>3. Debt(k) = Greatest(0, Burst(k) - (quota[k].tokens + gain)) BY <1>2 DEF Debt
    <2>4. Debt(k)' = Greatest(0, Burst(k) - (quota[k].tokens + (gain + Rpm[k])))
      BY <1>1, <1>2, <2>2 DEF Debt, Burst, Least, Greatest
    <2> HIDE DEF gain
    <2> QED BY <1>1, <2>1, <2>3, <2>4 DEF Greatest
  <1>3. CASE k \notin known BY <1>1, <1>3 DEF Debt
  <1> QED BY <1>2, <1>3

\* An admission, seen from outside.
LEMMA AdmissionFacts ==
  ASSUME IInv, NEW S \in SUBSET Key, now' = now, Charge(S), Free(S)
  PROVE  \A k \in Key :
            /\ Debt(k)' = IF k \in S THEN Debt(k) + Minute ELSE Debt(k)
            /\ quota'[k].active = IF k \in S THEN quota[k].active + 1 ELSE quota[k].active
            /\ k \in S => Debt(k) + Minute <= Burst(k) /\ quota[k].active < Concurrency[k]
  <1>1. \A k \in Key :
            /\ Debt(k)' = IF k \in S THEN Debt(k) + Minute ELSE Debt(k)
            /\ quota'[k].active = IF k \in S THEN quota[k].active + 1 ELSE quota[k].active
    BY ChargeFacts
  <1>2. \A k \in S : Debt(k) + Minute <= Burst(k) /\ quota[k].active < Concurrency[k]
    BY WaitFacts DEF Free
  <1> QED BY <1>1, <1>2

\* The kinds of steps.
LEMMA StepKinds ==
  ASSUME IInv, Next
  PROVE  \/ \E S \in Bundles : /\ S \in SUBSET Key /\ now' = now /\ from' = from
                               /\ Charge(S) /\ Free(S) /\ Counted(S)
                               /\ \A k \in S : HasRoom(k) \/ k = Global
         \/ \E S \in Bundles : /\ S \in SUBSET Key /\ UNCHANGED <<now, from, taken>>
                               /\ Release(S) /\ S \subseteq known
                               /\ \A k \in S : quota[k].active > 0
         \/ \E S \in SUBSET Key : /\ UNCHANGED <<now, from, taken>> /\ Touch(S)
                                  /\ S \subseteq Swept \cup {Global}
         \/ Tick
  <1>1. ASSUME NEW r \in Request, NEW a \in IP, Arrive(r, a)
        PROVE  \E S \in Bundles : /\ S \in SUBSET Key /\ now' = now /\ from' = from
                                  /\ Charge(S) /\ Free(S) /\ Counted(S)
                                  /\ \A k \in S : HasRoom(k) \/ k = Global
    <2>1. {Global, a} \in Bundles /\ {Global, a} \in SUBSET Key BY DEF Bundles, Key
    <2>2. now' = now /\ from' = from /\ Charge({Global, a}) /\ Free({Global, a})
          /\ Counted({Global, a}) /\ \A k \in {Global, a} : HasRoom(k) \/ k = Global
      BY <1>1 DEF Arrive, AdmitRequest, Free
    <2> QED BY <2>1, <2>2
  <1>2. ASSUME NEW r \in Request, NEW h \in Host, Forward(r, h)
        PROVE  \E S \in Bundles : /\ S \in SUBSET Key /\ now' = now /\ from' = from
                                  /\ Charge(S) /\ Free(S) /\ Counted(S)
                                  /\ \A k \in S : HasRoom(k) \/ k = Global
    <2>1. {h} \in Bundles /\ {h} \in SUBSET Key BY DEF Bundles, Key
    <2>2. now' = now /\ from' = from /\ Charge({h}) /\ Free({h}) /\ Counted({h}) /\ HasRoom(h)
      BY <1>2 DEF Forward, AdmitHost, Free
    <2> QED BY <2>1, <2>2
  <1>3. ASSUME NEW r \in Request, LeaveHost(r) \/ Return(r)
        PROVE  \E S \in Bundles : /\ S \in SUBSET Key /\ UNCHANGED <<now, from, taken>>
                                  /\ Release(S) /\ S \subseteq known
                                  /\ \A k \in S : quota[k].active > 0
    <2>1. CASE LeaveHost(r)
      <3>1. Global \in Key BY DEF Key
      <3>2. host[r] \in Host /\ r \in Holders(host[r]) BY <2>1, <3>1, LeaveHostHolders
      <3>3. {host[r]} \in Bundles /\ {host[r]} \in SUBSET Key /\ host[r] \in Key
        BY <3>2 DEF Bundles, Key
      <3>4. host[r] \in known /\ quota[host[r]].active > 0
        BY <3>2, <3>3, HeldKept, SweptFacts
      <3>5. UNCHANGED <<now, from, taken>> /\ Release({host[r]}) BY <2>1 DEF LeaveHost
      <3> QED BY <3>3, <3>4, <3>5
    <2>2. CASE Return(r)
      <3>1. Global \in Key BY DEF Key
      <3>2. ip[r] \in IP /\ r \in Holders(ip[r]) /\ r \in Holders(Global)
        BY <2>2, <3>1, ReturnHolders
      <3>3. /\ {Global, ip[r]} \in Bundles /\ {Global, ip[r]} \in SUBSET Key /\ ip[r] \in Key
        BY <3>2 DEF Bundles, Key
      <3>4. \A k \in {Global, ip[r]} : k \in known /\ quota[k].active > 0
        BY <3>1, <3>2, <3>3, HeldKept, SweptFacts
      <3>5. UNCHANGED <<now, from, taken>> /\ Release({Global, ip[r]}) BY <2>2 DEF Return
      <3> QED BY <3>3, <3>4, <3>5
    <2> QED BY <1>3, <2>1, <2>2
  <1>4. ASSUME NEW a \in IP, Refuse(a)
        PROVE  \E S \in SUBSET Key : /\ UNCHANGED <<now, from, taken>> /\ Touch(S)
                                     /\ S \subseteq Swept \cup {Global}
    <2>1. {Global} \in SUBSET Key /\ {Global, a} \in SUBSET Key BY DEF Key
    <2>2. UNCHANGED <<now, from, taken>> BY <1>4 DEF Refuse
    <2>3. \/ Touch({Global})
          \/ Touch({Global, a}) /\ a \in Swept
      BY <1>4 DEF Refuse, RefuseRequest
    <2> QED BY <2>1, <2>2, <2>3
  <1>5. ASSUME NEW r \in Request, NEW h \in Host, RefuseForward(r, h)
        PROVE  \E S \in SUBSET Key : /\ UNCHANGED <<now, from, taken>> /\ Touch(S)
                                     /\ S \subseteq Swept \cup {Global}
    <2>1. {} \in SUBSET Key /\ {h} \in SUBSET Key BY DEF Key
    <2>2. UNCHANGED <<now, from, taken>> BY <1>5 DEF RefuseForward
    <2>3. Touch({}) \/ (Touch({h}) /\ h \in Swept)
      BY <1>5 DEF RefuseForward, RefuseHost
    <2> QED BY <2>1, <2>2, <2>3
  <1> QED BY <1>1, <1>2, <1>3, <1>4, <1>5 DEF Next

-----------------------------------------------------------------------------
(* The bounds.                                                             *)

\* A table grows only while it has room.
LEMMA TableBounded ==
  ASSUME IInv, NEW T \in SUBSET Key, IsFiniteSet(T), NEW n \in Nat,
         Cardinality(known \cap T) <= n, NEW S, known' = Swept \cup S,
         \/ S \cap T \subseteq Swept
         \/ \E k \in T : S \cap T = {k} /\ Cardinality(Swept \cap T) < n
  PROVE  Cardinality(known' \cap T) <= n
  <1>1. Global \in Key BY DEF Key
  <1>2. Swept \cap T \subseteq known \cap T BY <1>1, SweptFacts
  <1>3. IsFiniteSet(known \cap T) /\ IsFiniteSet(Swept \cap T)
    BY FS_Subset
  <1>4. Cardinality(Swept \cap T) <= Cardinality(known \cap T) BY <1>2, <1>3, FS_Subset
  <1>5. Cardinality(Swept \cap T) \in Nat /\ Cardinality(known \cap T) \in Nat
    BY <1>3, FS_CardinalityType
  <1>6. CASE S \cap T \subseteq Swept
    <2>1. known' \cap T = Swept \cap T BY <1>6
    <2>2. Cardinality(Swept \cap T) <= n BY ONLY <1>4, <1>5, n \in Nat, Cardinality(known \cap T) <= n
    <2> QED BY ONLY <2>1, <2>2
  <1>7. ASSUME NEW k \in T, S \cap T = {k}, Cardinality(Swept \cap T) < n
        PROVE  Cardinality(known' \cap T) <= n
    <2>1. known' \cap T = (Swept \cap T) \cup {k} BY <1>7
    <2> DEFINE C == Swept \cap T
    <2>2. IsFiniteSet(C) /\ Cardinality(C) \in Nat BY <1>3, <1>5
    <2> HIDE DEF C
    <2>3. /\ Cardinality(C \cup {k}) = Cardinality(C) \/ Cardinality(C \cup {k}) = Cardinality(C) + 1
      BY <2>2, FS_AddElement
    <2>4. Cardinality(C \cup {k}) <= n BY <1>7, <2>2, <2>3 DEF C
    <2> QED BY <2>1, <2>4 DEF C
  <1> QED BY <1>6, <1>7

\* The live counts, and the tables.
CountsBounded == \A k \in Key : quota[k].active <= Concurrency[k]
TablesBounded == /\ Cardinality(known \cap IP) <= MaxIPs
                 /\ Cardinality(known \cap Host) <= MaxHosts

LEMMA BoundsInit == Init => CountsBounded /\ TablesBounded
  <1> SUFFICES ASSUME Init PROVE CountsBounded /\ TablesBounded OBVIOUS
  <1>1. known \cap IP = {} /\ known \cap Host = {} BY DEF Init, LimiterInit
  <1>2. TablesBounded BY <1>1, FS_EmptySet DEF TablesBounded
  <1>3. CountsBounded BY DEF Init, LimiterInit, Blank, CountsBounded
  <1> QED BY <1>2, <1>3

LEMMA BoundsStep ==
  ASSUME IInv, CountsBounded, TablesBounded, [Next]_vars
  PROVE  CountsBounded' /\ TablesBounded'
  <1> DEFINE B == CountsBounded' /\ TablesBounded'
  <1>1. \A k \in Key : quota[k].active \in Nat /\ Concurrency[k] \in Nat BY RecordFacts
  <1>2. IP \in SUBSET Key /\ Host \in SUBSET Key BY DEF Key
  <1>3. ASSUME NEW S \in Bundles, S \in SUBSET Key, now' = now, Charge(S), Free(S),
               \A k \in S : HasRoom(k) \/ k = Global
        PROVE  B
    <2>1. CountsBounded' BY <1>1, <1>3, AdmissionFacts DEF CountsBounded
    <2>2. known' = Swept \cup S BY <1>3, ChargeFacts
    <2>3. ASSUME NEW a \in IP, S = {Global, a} PROVE TablesBounded'
      <3>1. S \cap IP = {a} /\ S \cap Host = {} /\ HasRoom(a) BY <1>3, <2>3
      <3>2. a \in Swept \/ Cardinality(Swept \cap IP) < MaxIPs BY <3>1 DEF HasRoom
      <3>3. Cardinality(known' \cap IP) <= MaxIPs
        BY <1>2, <2>2, <3>1, <3>2, TableBounded DEF TablesBounded
      <3>4. Cardinality(known' \cap Host) <= MaxHosts
        BY <1>2, <2>2, <3>1, TableBounded DEF TablesBounded
      <3> QED BY <3>3, <3>4 DEF TablesBounded
    <2>4. ASSUME NEW h \in Host, S = {h} PROVE TablesBounded'
      <3>1. S \cap Host = {h} /\ S \cap IP = {} /\ HasRoom(h) BY <1>3, <2>4
      <3>2. h \in Swept \/ Cardinality(Swept \cap Host) < MaxHosts BY <3>1 DEF HasRoom
      <3>3. Cardinality(known' \cap Host) <= MaxHosts
        BY <1>2, <2>2, <3>1, <3>2, TableBounded DEF TablesBounded
      <3>4. Cardinality(known' \cap IP) <= MaxIPs
        BY <1>2, <2>2, <3>1, TableBounded DEF TablesBounded
      <3> QED BY <3>3, <3>4 DEF TablesBounded
    <2> QED BY <2>1, <2>3, <2>4 DEF Bundles
  <1>4. ASSUME NEW S \in Bundles, S \in SUBSET Key, now' = now, Release(S), S \subseteq known,
               \A k \in S : quota[k].active > 0
        PROVE  B
    <2>1. known' = known
          /\ \A k \in Key : quota'[k].active = IF k \in S THEN quota[k].active - 1
                                               ELSE quota[k].active
      BY <1>4, ReleaseFacts
    <2> QED BY <1>1, <2>1 DEF CountsBounded, TablesBounded
  <1>5. ASSUME NEW S \in SUBSET Key, now' = now, Touch(S), S \subseteq Swept \cup {Global}
        PROVE  B
    <2>1. known' = Swept \cup S /\ \A k \in Key : quota'[k].active = quota[k].active
      BY <1>5, TouchFacts
    <2>2. S \cap IP \subseteq Swept /\ S \cap Host \subseteq Swept BY <1>5
    <2>3. Cardinality(known' \cap IP) <= MaxIPs
      BY <1>2, <2>1, <2>2, TableBounded DEF TablesBounded
    <2>4. Cardinality(known' \cap Host) <= MaxHosts
      BY <1>2, <2>1, <2>2, TableBounded DEF TablesBounded
    <2> QED BY <2>1, <2>3, <2>4 DEF CountsBounded, TablesBounded
  <1>6. CASE Tick BY <1>6 DEF Tick, limiter, CountsBounded, TablesBounded
  <1>7. CASE UNCHANGED vars BY <1>7 DEF vars, limiter, CountsBounded, TablesBounded
  <1> QED BY <1>3, <1>4, <1>5, <1>6, <1>7, StepKinds

\* Live requests and remembered identities stay within their limits.
THEOREM BoundsHold == Spec => []Bounded
  <1>1. IInv /\ CountsBounded /\ TablesBounded /\ [Next]_vars => CountsBounded' /\ TablesBounded'
    BY BoundsStep
  <1>2. Spec => [](IInv /\ CountsBounded /\ TablesBounded)
    BY <1>1, BoundsInit, Invariance, PTL DEF Spec
  <1>3. IInv /\ CountsBounded /\ TablesBounded => Bounded
    BY DEF IInv, CountsAgree, CountsBounded, TablesBounded, Bounded
  <1> QED BY <1>2, <1>3, PTL

-----------------------------------------------------------------------------
(* The rate in any window of time.                                         *)

\* What was admitted in the window is paid for by the time gone by in it, or is
\* still owed.
RateInv ==
    \A k \in Key : /\ now < from => taken[k] = 0
                   /\ now >= from => taken[k] * Minute <= Debt(k) + (now - from) * Rpm[k]

LEMMA RateInit == Init => RateInv
  <1> SUFFICES ASSUME Init, NEW k \in Key
               PROVE  /\ taken[k] = 0
                      /\ now >= from => taken[k] * Minute <= Debt(k) + (now - from) * Rpm[k]
    BY DEF RateInv
  <1>1. /\ taken[k] = 0 /\ now = 0 /\ from \in Nat /\ Rpm[k] \in Nat
        /\ Debt(k) = 0 /\ Minute \in Nat
    BY DEF Init, LimiterInit, Debt
  <1>2. 0 * Minute = 0 /\ (0 - 0) * Rpm[k] = 0 BY <1>1
  <1> QED BY <1>1, <1>2

LEMMA RateStep == ASSUME IInv, RateInv, [Next]_vars PROVE RateInv'
  <1> DEFINE Owed(k) == /\ now' < from' => taken'[k] = 0
                        /\ now' >= from' => taken'[k] * Minute
                                               <= Debt(k)' + (now' - from') * Rpm[k]
  <1>1. /\ now \in Nat /\ from \in Nat /\ Minute \in Nat
        /\ \A k \in Key : taken[k] \in Nat /\ Debt(k) \in Nat /\ Rpm[k] \in Nat
    BY RefreshedFacts DEF IInv, TypeOK, LimiterTypeOK
  <1>2. ASSUME NEW S \in Bundles, S \in SUBSET Key, now' = now, from' = from,
               Charge(S), Free(S), Counted(S), NEW k \in Key
        PROVE  Owed(k)
    <2>1. Debt(k)' = IF k \in S THEN Debt(k) + Minute ELSE Debt(k) BY <1>2, AdmissionFacts
    <2>2. taken'[k] = IF k \in S /\ now >= from THEN taken[k] + 1 ELSE taken[k]
      BY <1>2 DEF Counted
    <2>3. now >= from => taken[k] * Minute <= Debt(k) + (now - from) * Rpm[k]
      BY DEF RateInv
    <2>4. now < from => taken[k] = 0 BY DEF RateInv
    <2>5. (taken[k] + 1) * Minute = taken[k] * Minute + Minute
          /\ taken[k] * Minute \in Nat
      BY <1>1, Product
    <2>6. now >= from => (now - from) * Rpm[k] \in Nat
      <3>1. now >= from => now - from \in Nat BY <1>1
      <3> QED BY <1>1, <3>1, Product
    <2>7. CASE k \in S /\ now >= from
      <3>1. taken'[k] * Minute = taken[k] * Minute + Minute BY <2>2, <2>5, <2>7
      <3> QED BY <1>1, <1>2, <2>1, <2>3, <2>5, <2>6, <2>7, <3>1
    <2>8. CASE ~(k \in S /\ now >= from)
      BY <1>1, <1>2, <2>1, <2>2, <2>3, <2>4, <2>5, <2>6, <2>8
    <2> QED BY <2>7, <2>8
  <1>3. ASSUME UNCHANGED <<now, from, taken>>, \A k \in Key : Debt(k)' = Debt(k), NEW k \in Key
        PROVE  Owed(k)
    BY <1>3 DEF RateInv
  <1>4. ASSUME NEW S \in SUBSET Key, UNCHANGED <<now, from, taken>>, Release(S), S \subseteq known,
               \A k \in S : quota[k].active > 0, NEW k \in Key
        PROVE  Owed(k)
    <2>1. \A i \in Key : Debt(i)' = Debt(i) BY <1>4, ReleaseFacts
    <2> QED BY <1>3, <1>4, <2>1
  <1>5. ASSUME NEW S \in SUBSET Key, UNCHANGED <<now, from, taken>>, Touch(S), NEW k \in Key
        PROVE  Owed(k)
    <2>1. \A i \in Key : Debt(i)' = Debt(i) BY <1>5, TouchFacts
    <2> QED BY <1>3, <1>5, <2>1
  <1>6. ASSUME Tick, NEW k \in Key PROVE Owed(k)
    <2>1. now' = now + 1 /\ from' = from /\ taken' = taken BY <1>6 DEF Tick
    <2>2. Debt(k)' = IF Debt(k) > Rpm[k] THEN Debt(k) - Rpm[k] ELSE 0 BY <1>6, DebtDrains
    <2>3. CASE now >= from
      <3>1. (now + 1 - from) * Rpm[k] = (now - from) * Rpm[k] + Rpm[k] BY <1>1
      <3>2. taken[k] * Minute <= Debt(k) + (now - from) * Rpm[k] BY <2>3 DEF RateInv
      <3>3. now - from \in Nat BY <1>1, <2>3
      <3>4. (now - from) * Rpm[k] \in Nat /\ taken[k] * Minute \in Nat BY <1>1, <3>3, Product
      <3> QED BY <1>1, <2>1, <2>2, <2>3, <3>1, <3>2, <3>4
    <2>4. CASE now < from
      <3>1. taken[k] = 0 /\ taken[k] * Minute = 0 BY <1>1, <2>4 DEF RateInv
      <3>2. Debt(k)' \in Nat BY <1>1, <2>2
      <3>3. now' >= from' => (now' - from') * Rpm[k] = 0 BY <1>1, <2>1, <2>4
      <3> QED BY <1>1, <2>1, <3>1, <3>2, <3>3
    <2> QED BY <1>1, <2>3, <2>4
  <1>7. ASSUME UNCHANGED vars, NEW k \in Key PROVE Owed(k)
    <2>1. \A i \in Key : Debt(i)' = Debt(i)
      BY <1>7 DEF vars, limiter, Debt, Burst, Least, Greatest
    <2> QED BY <1>3, <1>7, <2>1 DEF vars
  <1>8. \A k \in Key : Owed(k)
    BY <1>2, <1>4, <1>5, <1>6, <1>7, StepKinds
  <1> QED BY <1>8 DEF RateInv

\* In no window of time does an identity get more than its burst and its rate.
THEOREM RateIsKept == Spec => []RateKept
  <1>1. Spec => [](IInv /\ RateInv)
    BY RateInit, RateStep, Invariance, PTL DEF Spec
  <1>2. IInv /\ RateInv => RateKept
    <2> SUFFICES ASSUME IInv, RateInv, now >= from, NEW k \in Key
                 PROVE  taken[k] * Minute <= Burst(k) + (now - from) * Rpm[k]
      BY DEF RateKept
    <2>1. taken[k] * Minute <= Debt(k) + (now - from) * Rpm[k] BY DEF RateInv
    <2>2. Debt(k) \in Nat /\ Debt(k) <= Burst(k) BY RefreshedFacts
    <2>3. now \in Nat /\ from \in Nat /\ taken[k] \in Nat /\ Minute \in Nat /\ Rpm[k] \in Nat
      BY DEF IInv, TypeOK, LimiterTypeOK
    <2>4. now - from \in Nat BY <2>3
    <2>5. (now - from) * Rpm[k] \in Nat /\ taken[k] * Minute \in Nat BY <2>3, <2>4, Product
    <2> QED BY <2>1, <2>2, <2>5, BurstFacts
  <1> QED BY <1>1, <1>2, PTL

-----------------------------------------------------------------------------
(* The limiter implements the meter.                                       *)

LEMMA MeterInit == Init => Meter!Init
  <1> SUFFICES ASSUME Init PROVE Meter!Init OBVIOUS
  <1>1. \A k \in Key : Debt(k) = 0 /\ quota[k].active = 0
    BY DEF Init, LimiterInit, Debt, Blank
  <1> QED BY <1>1 DEF Meter!Init

LEMMA MeterStep ==
  ASSUME IInv, [Next]_vars
  PROVE  [Meter!Next]_<<[k \in Key |-> Debt(k)], [k \in Key |-> quota[k].active]>>
  <1> DEFINE debt == [k \in Key |-> Debt(k)]
             live == [k \in Key |-> quota[k].active]
  <1>1. ASSUME NEW S \in Bundles, S \in SUBSET Key, now' = now, Charge(S), Free(S)
        PROVE  Meter!Admit(S)
    <2>1. \A k \in Key :
            /\ Debt(k)' = IF k \in S THEN Debt(k) + Minute ELSE Debt(k)
            /\ quota'[k].active = IF k \in S THEN quota[k].active + 1 ELSE quota[k].active
            /\ k \in S => Debt(k) + Minute <= Burst(k) /\ quota[k].active < Concurrency[k]
      BY <1>1, AdmissionFacts
    <2> QED BY <1>1, <2>1 DEF Meter!Admit
  <1>2. ASSUME NEW S \in Bundles, S \in SUBSET Key, now' = now, Release(S), S \subseteq known,
               \A k \in S : quota[k].active > 0
        PROVE  Meter!Leave(S)
    <2>1. \A k \in Key :
            /\ Debt(k)' = Debt(k)
            /\ quota'[k].active = IF k \in S THEN quota[k].active - 1 ELSE quota[k].active
      BY <1>2, ReleaseFacts
    <2> QED BY <1>2, <2>1 DEF Meter!Leave
  <1>3. ASSUME NEW S \in SUBSET Key, now' = now, Touch(S)
        PROVE  debt' = debt /\ live' = live
    <2>1. \A k \in Key : Debt(k)' = Debt(k) /\ quota'[k].active = quota[k].active
      BY <1>3, TouchFacts
    <2> QED BY <2>1
  <1>4. CASE Tick
    <2>1. \A k \in Key : /\ Debt(k)' = IF Debt(k) > Rpm[k] THEN Debt(k) - Rpm[k] ELSE 0
                         /\ quota'[k].active = quota[k].active
      BY <1>4, DebtDrains DEF Tick, limiter
    <2> QED BY <2>1 DEF Meter!Next, Meter!Drain
  <1>5. CASE UNCHANGED vars
    <2>1. \A k \in Key : Debt(k)' = Debt(k) /\ quota'[k].active = quota[k].active
      BY <1>5 DEF vars, limiter, Debt, Burst, Least, Greatest
    <2>2. debt' = debt /\ live' = live BY <2>1
    <2> QED BY <2>2
  <1>6. CASE Next
    <2>1. CASE \E S \in Bundles : /\ S \in SUBSET Key /\ now' = now /\ Charge(S) /\ Free(S)
      BY <1>1, <2>1 DEF Meter!Next
    <2>2. CASE \E S \in Bundles : /\ S \in SUBSET Key /\ now' = now /\ Release(S)
                                  /\ S \subseteq known /\ \A k \in S : quota[k].active > 0
      BY <1>2, <2>2 DEF Meter!Next
    <2>3. CASE \E S \in SUBSET Key : now' = now /\ Touch(S) BY <1>3, <2>3
    <2> QED BY <1>4, <1>6, <2>1, <2>2, <2>3, StepKinds
  <1> QED BY <1>5, <1>6

\* Forgetting and refusing are invisible: the limiter implements one that
\* remembers every identity for ever.
THEOREM LimiterImplementsMeter == Spec => ImplementsMeter
  <1>1. Init => Meter!Init BY MeterInit
  <1>2. IInv /\ [Next]_vars =>
          [Meter!Next]_<<[k \in Key |-> Debt(k)], [k \in Key |-> quota[k].active]>>
    BY MeterStep
  <1> QED BY <1>1, <1>2, Invariance, PTL DEF Spec, ImplementsMeter, Meter!Spec

-----------------------------------------------------------------------------
(* The address of a visitor.                                               *)

\* c[i] is the client after i steps.
Walks(c, parts, peer) ==
    /\ Vouched(parts, peer) = c[Len(parts)] /\ c[0] = peer
    /\ \A i \in 1 .. Len(parts) : c[i] = Hop(parts, c[i - 1], i)

\* The function that Vouched defines is what its definition says.
LEMMA VouchedUnfolds ==
    ASSUME NEW parts \in Seq(Machine), NEW peer
    PROVE  \E c : Walks(c, parts, peer)
<1>0. PICK n \in Nat : n = Len(parts)
  OBVIOUS
<1> DEFINE F(f) == [i \in 0 .. n |-> IF i = 0 THEN peer ELSE Hop(parts, f[i - 1], i)]
           client == CHOOSE f : f = F(f)
<1>1. PICK R : R = {parts[i] : i \in 1 .. n} \cup {peer}
  OBVIOUS
<1>2. PICK S : S = [i \in 0 .. n |-> R]
  OBVIOUS
<1>3. PICK step : step = [i \in 1 .. n |-> [w \in R |-> Hop(parts, w, i)]]
  OBVIOUS
<1>4. \A i \in 1 .. n : i \in 0 .. n /\ i - 1 \in 0 .. n /\ n + 1 - i \in 1 .. n
  OBVIOUS
<1>5. ASSUME NEW i \in 1 .. n, NEW w \in R PROVE Hop(parts, w, i) \in R
  BY <1>0, <1>1, <1>4 DEF Hop
<1>6. PICK b \in S[0] : b = peer
  BY <1>1, <1>2
<1>7. \A i \in 1 .. n : \A w \in S[i - 1] : step[i][w] \in S[i]
  BY <1>2, <1>3, <1>4, <1>5
<1>8. PICK g : Goes(g, n, b, step) /\ \A i \in 0 .. n : g[i] \in S[i]
  BY <1>7, Recursion
<1>9. g = F(g)
  <2>1. g = [i \in 0 .. n |-> g[i]] /\ g[0] = peer
    BY <1>6, <1>8 DEF Goes
  <2>2. ASSUME NEW i \in 1 .. n PROVE g[i] = Hop(parts, g[i - 1], i)
    <3>1. g[i] = step[i][g[i - 1]]
      BY <1>8 DEF Goes
    <3>2. g[i - 1] \in R
      BY <1>2, <1>4, <1>8
    <3> QED BY <3>1, <3>2, <1>3
  <2>3. ASSUME NEW i \in 0 .. n
        PROVE  g[i] = IF i = 0 THEN peer ELSE Hop(parts, g[i - 1], i)
    <3>1. CASE i = 0
      BY <3>1, <2>1
    <3>2. CASE i # 0
      <4>1. i \in 1 .. n
        BY <3>2
      <4> QED BY <4>1, <3>2, <2>2
    <3> QED BY <3>1, <3>2
  <2> QED BY <2>1, <2>3
<1>10. client = F(client)
  BY <1>9
<1>11. Vouched(parts, peer) = client[n]
  BY <1>0 DEF Vouched
<1>12. PICK c : c = client
  OBVIOUS
<1>13. c[0] = peer /\ \A i \in 1 .. n : c[i] = Hop(parts, c[i - 1], i)
  <2>1. c = F(c)
    BY <1>10, <1>12
  <2>2. \A i \in 0 .. n : c[i] = IF i = 0 THEN peer ELSE Hop(parts, c[i - 1], i)
    BY <2>1
  <2> QED BY <2>2
<1> QED BY <1>0, <1>11, <1>12, <1>13 DEF Walks

\* Part k is the last that a proxy wrote which is not trusted, or there is none and it is
\* the first.
Stands(parts, k) ==
    /\ k \in 1 .. Len(parts)
    /\ \A i \in k + 1 .. Len(parts) : parts[i] \in Trusted
    /\ parts[k] \in Trusted => k = 1

\* A trusted peer vouches, over others that are trusted, for that part.
LEMMA VouchedStands ==
    ASSUME NEW parts \in Seq(Machine), NEW peer \in Trusted, NEW k, Stands(parts, k)
    PROVE  Vouched(parts, peer) = parts[k]
<1>1. PICK n \in Nat : n = Len(parts)
  OBVIOUS
<1>2. /\ k \in 1 .. n /\ (parts[k] \in Trusted => k = 1)
      /\ \A i \in k + 1 .. n : parts[i] \in Trusted
  BY <1>1 DEF Stands
<1>3. PICK c : /\ Vouched(parts, peer) = c[n] /\ c[0] = peer
               /\ \A i \in 1 .. n : c[i] = Hop(parts, c[i - 1], i)
  BY <1>1, VouchedUnfolds DEF Walks
<1>4. PICK m \in 1 .. n : m = n + 1 - k
  BY <1>2
<1>5. PICK W : W = [i \in 0 .. n |-> IF i < m THEN Trusted ELSE {parts[k]}]
  OBVIOUS
<1>6. c[0] \in W[0]
  BY <1>3, <1>5
<1>7. ASSUME NEW i \in 1 .. n, c[i - 1] \in W[i - 1] PROVE c[i] \in W[i]
  <2>1. /\ i \in 0 .. n /\ i - 1 \in 0 .. n
        /\ c[i] = IF c[i - 1] \in Trusted THEN parts[n + 1 - i] ELSE c[i - 1]
    BY <1>1, <1>3 DEF Hop
  <2>2. CASE i < m
    <3>1. i - 1 < m /\ n + 1 - i \in k + 1 .. n
      BY <2>2, <1>2, <1>4
    <3>2. parts[n + 1 - i] \in Trusted
      BY <3>1, <1>2
    <3>3. c[i - 1] \in Trusted
      BY <2>1, <3>1, <1>5, <1>7
    <3> QED BY <2>1, <2>2, <3>2, <3>3, <1>5
  <2>3. CASE i = m
    <3>1. i - 1 < m /\ n + 1 - i = k
      BY <2>3, <1>2, <1>4
    <3>2. c[i - 1] \in Trusted
      BY <2>1, <3>1, <1>5, <1>7
    <3> QED BY <2>1, <2>3, <3>1, <3>2, <1>5
  <2>4. CASE i > m
    <3>1. ~(i - 1 < m) /\ ~(i < m) /\ k # 1
      BY <2>4, <1>2, <1>4
    <3>2. c[i - 1] = parts[k]
      BY <2>1, <3>1, <1>5, <1>7
    <3>3. c[i - 1] \notin Trusted
      BY <3>1, <3>2, <1>2
    <3> QED BY <2>1, <3>1, <3>2, <3>3, <1>5
  <2> QED BY <2>2, <2>3, <2>4
<1>8. \A i \in 0 .. n : c[i] \in W[i]
  BY <1>6, <1>7, Along
<1>9. c[n] = parts[k]
  BY <1>4, <1>5, <1>8
<1> QED BY <1>3, <1>9

\* Nobody vouches for a trusted peer that is the first.
LEMMA VouchedFirst ==
    ASSUME NEW parts \in Seq(Machine), Len(parts) = 0, NEW peer
    PROVE  Vouched(parts, peer) = peer
<1>1. PICK c : Walks(c, parts, peer)
  BY VouchedUnfolds
<1> QED BY <1>1 DEF Walks

\* The machine that the header leads to is the one the request came from.
Traced ==
    \/ source = holder /\ (holder \in Trusted => header = <<>>)
    \/ holder \in Trusted /\ \E k \in 1 .. Len(header) : Stands(header, k) /\ header[k] = source

AddressInv == AddressTypeOK /\ Traced /\ ChargedToSource

\* A header that was made up.
LEMMA MadeUp ==
    ASSUME NEW n \in Nat, NEW parts \in [1 .. n -> Machine]
    PROVE  parts \in Seq(Machine)
OBVIOUS

LEMMA AddressInitHolds == AddressInit => AddressInv
<1> SUFFICES ASSUME AddressInit PROVE AddressInv
  OBVIOUS
<1>1. header \in Seq(Machine) /\ room \in Int
  <2>1. CASE holder \in Trusted
    <3>1. PICK s \in Seq(Machine) : s = <<>>
      BY EmptySeq
    <3> QED BY <2>1, <3>1, AddressAssumption DEF AddressInit
  <2>2. CASE holder \notin Trusted
    <3>1. PICK n \in 0 .. MaxForged : header \in [1 .. n -> Machine] /\ room \in -1 .. Room - n
      BY <2>2 DEF AddressInit
    <3>2. n \in Nat /\ room \in Int
      BY <3>1, AddressAssumption
    <3> QED BY <3>1, <3>2, MadeUp
  <2> QED BY <2>1, <2>2
<1>2. way \in 0 .. MaxWay
  BY AddressAssumption DEF AddressInit
<1> QED BY <1>1, <1>2 DEF AddressInit, AddressInv, AddressTypeOK, Traced, ChargedToSource

LEMMA PassKeeps ==
    ASSUME AddressInv, NEW proxy \in Trusted, Pass(proxy) PROVE AddressInv'
<1>1. PICK n \in Nat : n = Len(header)
  BY DEF AddressInv, AddressTypeOK
<1>2. PICK u : u = Append(header, holder)
  OBVIOUS
<1>3. /\ u \in Seq(Machine) /\ Len(u) = n + 1 /\ u[n + 1] = holder
      /\ \A i \in 1 .. n : u[i] = header[i]
  BY <1>1, <1>2, AppendProperties DEF AddressInv, AddressTypeOK
<1>4. header' = u /\ holder' = proxy /\ source' = source /\ key' = <<>>
  BY <1>2 DEF Pass
<1>5. AddressTypeOK'
  <2>1. way' \in 0 .. MaxWay /\ room' \in Int
    BY AddressAssumption DEF Pass, AddressInv, AddressTypeOK
  <2>2. proxy \in Machine
    BY AddressAssumption DEF Machine
  <2> QED BY <2>1, <2>2, <1>3, <1>4 DEF AddressInv, AddressTypeOK
<1>6. Traced'
  <2>1. \E k \in 1 .. n + 1 : Stands(u, k) /\ u[k] = source
    <3>1. CASE source = holder /\ (holder \in Trusted => header = <<>>)
      <4>1. holder \in Trusted => n + 1 = 1
        BY <3>1, <1>1
      <4>2. n + 1 \in 1 .. n + 1 /\ (n + 1) + 1 .. n + 1 = {}
        OBVIOUS
      <4>3. Stands(u, n + 1)
        BY <4>1, <4>2, <1>3 DEF Stands
      <4> QED BY <4>2, <4>3, <3>1, <1>3
    <3>2. CASE /\ holder \in Trusted
               /\ \E k \in 1 .. Len(header) : Stands(header, k) /\ header[k] = source
      <4>1. PICK k \in 1 .. n : Stands(header, k) /\ header[k] = source
        BY <3>2, <1>1
      <4>2. k \in 1 .. n + 1 /\ u[k] = header[k]
        BY <1>3
      <4>3. ASSUME NEW i \in k + 1 .. n + 1 PROVE u[i] \in Trusted
        <5>1. CASE i = n + 1
          BY <5>1, <1>3, <3>2
        <5>2. CASE i # n + 1
          <6>1. i \in 1 .. n /\ i \in k + 1 .. Len(header)
            BY <5>2, <1>1
          <6> QED BY <6>1, <4>1, <1>3 DEF Stands
        <5> QED BY <5>1, <5>2
      <4>4. Stands(u, k)
        BY <4>1, <4>2, <4>3, <1>3 DEF Stands
      <4> QED BY <4>1, <4>2, <4>4
    <3> QED BY <3>1, <3>2 DEF AddressInv, Traced
  <2>2. PICK k \in 1 .. n + 1 : Stands(u, k) /\ u[k] = source
    BY <2>1
  <2>3. k \in 1 .. Len(header') /\ Stands(header', k) /\ header'[k] = source'
    BY <2>2, <1>3, <1>4 DEF Stands
  <2> QED BY <2>3, <1>4 DEF Traced
<1> QED BY <1>4, <1>5, <1>6 DEF AddressInv, ChargedToSource

LEMMA DetourKeeps ==
    ASSUME AddressInv, NEW other \in Machine \ Trusted, Detour(other) PROVE AddressInv'
<1>1. PICK n \in 0 .. MaxForged : header' \in [1 .. n -> Machine] /\ room' \in -1 .. Room - n
  BY DEF Detour
<1>2. n \in Nat /\ room' \in Int
  BY <1>1, AddressAssumption
<1>3. header' \in Seq(Machine)
  BY <1>1, <1>2, MadeUp
<1>4. way' \in 0 .. MaxWay
  BY AddressAssumption DEF Detour, AddressInv, AddressTypeOK
<1>5. AddressTypeOK'
  BY <1>2, <1>3, <1>4 DEF Detour, AddressInv, AddressTypeOK
<1> QED BY <1>5 DEF Detour, AddressInv, Traced, ChargedToSource

LEMMA EnterKeeps ==
    ASSUME AddressInv, Enter PROVE AddressInv'
<1>1. PICK x : x = ClientIP(holder, header, room)
  OBVIOUS
<1>2. key' = <<x>> /\ UNCHANGED <<holder, header, room, way, source>>
  BY <1>1 DEF Enter
<1>3. holder \in Machine /\ source \in Machine /\ header \in Seq(Machine) /\ room \in Int
  BY DEF AddressInv, AddressTypeOK
<1>4. CASE holder \in Odd
  <2>1. x = Unknown
    BY <1>1, <1>4 DEF ClientIP
  <2> QED BY <2>1, <1>2, <1>4 DEF AddressInv, AddressTypeOK, Identity, Traced, ChargedToSource
<1>5. CASE holder \in Address /\ ~(holder \in Trusted /\ Legible(header, room))
  <2>1. x = Net[holder]
    BY <1>1, <1>5, AddressAssumption DEF ClientIP
  <2>2. x \in Identity
    BY <2>1, <1>5 DEF Identity
  <2>3. CASE holder \notin Trusted
    <3>1. source = holder
      BY <2>3 DEF AddressInv, Traced
    <3> QED BY <2>1, <2>2, <3>1, <1>2, <1>5
          DEF AddressInv, AddressTypeOK, Traced, ChargedToSource
  <2>4. CASE holder \in Trusted
    <3>1. (\E i \in DOMAIN header : header[i] \in Odd) \/ Len(header) > MaxParts \/ room < 0
      <4>1. \A i \in DOMAIN header : header[i] \in Machine
        BY <1>3
      <4>2. Len(header) \in Nat /\ MaxParts \in Nat
        BY <1>3, AddressAssumption
      <4> QED BY <4>1, <4>2, <1>3, <1>5, <2>4 DEF Legible, Machine
    <3> QED BY <2>1, <2>2, <2>4, <3>1, <1>2
          DEF AddressInv, AddressTypeOK, Traced, ChargedToSource
  <2> QED BY <2>3, <2>4
<1>6. CASE holder \in Trusted /\ Legible(header, room)
  <2>1. x = Net[Vouched(header, holder)]
    BY <1>1, <1>6, AddressAssumption DEF ClientIP
  <2>2. Vouched(header, holder) = source /\ source \in Address
    <3>1. CASE source = holder /\ header = <<>>
      <4>1. Len(header) = 0
        BY <3>1
      <4>2. Vouched(header, holder) = holder
        BY <4>1, <1>3, VouchedFirst
      <4> QED BY <3>1, <4>2, <1>6, AddressAssumption
    <3>2. CASE \E k \in 1 .. Len(header) : Stands(header, k) /\ header[k] = source
      <4>1. PICK k \in 1 .. Len(header) : Stands(header, k) /\ header[k] = source
        BY <3>2
      <4>2. PICK parts \in Seq(Machine), peer \in Trusted : parts = header /\ peer = holder
        BY <1>3, <1>6
      <4>3. Vouched(parts, peer) = parts[k]
        BY <4>1, <4>2, VouchedStands
      <4>4. header[k] \in Address
        BY <1>3, <1>6, <4>1 DEF Legible
      <4> QED BY <4>1, <4>2, <4>3, <4>4
    <3> QED BY <3>1, <3>2, <1>6 DEF AddressInv, Traced
  <2>3. x = Net[source] /\ x \in Identity
    BY <2>1, <2>2 DEF Identity
  <2> QED BY <2>2, <2>3, <1>2 DEF AddressInv, AddressTypeOK, Traced, ChargedToSource
<1> QED BY <1>3, <1>4, <1>5, <1>6 DEF Machine

LEMMA AddressInvariance == AddressSpec => []AddressInv
<1>1. AddressInv /\ [AddressNext]_addressVars => AddressInv'
  <2> SUFFICES ASSUME AddressInv, [AddressNext]_addressVars PROVE AddressInv'
    OBVIOUS
  <2>1. ASSUME NEW proxy \in Trusted, Pass(proxy) PROVE AddressInv'
    BY <2>1, PassKeeps
  <2>2. ASSUME NEW other \in Machine \ Trusted, Detour(other) PROVE AddressInv'
    BY <2>2, DetourKeeps
  <2>3. CASE Enter
    BY <2>3, EnterKeeps
  <2>4. CASE UNCHANGED addressVars
    BY <2>4 DEF addressVars, AddressInv, AddressTypeOK, Traced, Stands, ChargedToSource
  <2> QED BY <2>1, <2>2, <2>3, <2>4 DEF AddressNext
<1> QED BY <1>1, AddressInitHolds, PTL DEF AddressSpec

\* The header is a list of machines and the identity charged is one a limiter knows
\* (clientIP).
THEOREM AddressTypesKept == AddressSpec => []AddressTypeOK
<1>1. AddressInv => AddressTypeOK
  BY DEF AddressInv
<1> QED BY <1>1, AddressInvariance, PTL

\* Whatever was written into the header on the way, over however many machines, a request is
\* charged to the last of them that is not trusted, or to the first; one whose header cannot
\* be read to the proxy that connected (clientIP).
THEOREM AlwaysChargedToSource == AddressSpec => []ChargedToSource
<1>1. AddressInv => ChargedToSource
  BY DEF AddressInv
<1> QED BY <1>1, AddressInvariance, PTL

=============================================================================
