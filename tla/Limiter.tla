------------------------------ MODULE Limiter ------------------------------
(***************************************************************************)
(* The limiter of the relay server (src/internal/server/limits.go): token  *)
(* buckets and live counts for the whole process, for each visitor address *)
(* and for each upstream host.  Every operation holds Limiter.mu           *)
(* throughout and is one step.                                             *)
(*                                                                         *)
(* A token is Minute units, so a bucket of Rpm gains exactly Rpm units per *)
(* unit of time; with Minute = 60 the unit of time is the second in which  *)
(* the code counts its waits.  The code's float64 buckets are exact here.  *)
(***************************************************************************)
EXTENDS Integers, FiniteSets

CONSTANTS
    IP,             \* keys of Limiter.ips: addresses, IPv6 cut to /64
    Host,           \* keys of Limiter.hosts
    Global,         \* the quota of the whole process
    Rpm,            \* Rpm[k]: IPRPM, HostRPM or GlobalRPM
    Concurrency,    \* Concurrency[k]: IPConcurrency, HostConcurrency or GlobalConcurrency
    MaxIPs,         \* most addresses remembered (10000)
    MaxHosts,       \* most hosts remembered (1000)
    BurstCap,       \* most tokens a bucket may hold (10)
    Minute,         \* a minute; also the units of one token
    Idle            \* how long an unused record is kept (ten minutes)

Key == IP \cup Host \cup {Global}

ASSUME LimiterAssumption ==
    /\ IP \cap Host = {} /\ Global \notin IP \cup Host
    /\ IsFiniteSet(IP) /\ IsFiniteSet(Host)
    /\ Rpm \in [Key -> Nat \ {0}] /\ Concurrency \in [Key -> Nat \ {0}]
    /\ MaxIPs \in Nat /\ MaxHosts \in Nat
    /\ BurstCap \in Nat \ {0} /\ Minute \in Nat \ {0}
    /\ Idle \in Nat /\ Idle >= Minute

VARIABLES
    known,          \* the identities that have a record
    quota,          \* their records, Blank for the others
    nextCleanup,    \* Limiter.nextCleanup
    now             \* Limiter.now()

limiter == <<known, quota, nextCleanup>>

Quota == [tokens : Nat, last : Nat, seen : Nat, active : Nat]
Blank == [tokens |-> 0, last |-> 0, seen |-> 0, active |-> 0]

Least(a, b) == IF a <= b THEN a ELSE b
Greatest(a, b) == IF a >= b THEN a ELSE b

Burst(k) == Least(Rpm[k], BurstCap) * Minute

LimiterTypeOK ==
    /\ known \subseteq Key
    /\ quota \in [Key -> Quota]
    /\ nextCleanup \in Nat
    /\ now \in Nat

LimiterInit ==
    /\ known = {}
    /\ quota = [k \in Key |-> Blank]
    /\ nextCleanup = 0
    /\ now = 0

-----------------------------------------------------------------------------
(* One record.                                                             *)

NewQuota(k) == [tokens |-> Burst(k), last |-> now, seen |-> now, active |-> 0]

Refilled(q, k) ==
    [tokens |-> Least(Burst(k), q.tokens + (now - q.last) * Rpm[k]),
     last |-> now, seen |-> now, active |-> q.active]

\* Fault: the wait is rounded down.
FloorDiv(a, b) == a \div b

\* The seconds a caller is told to wait, 0 when it may go on.  A live count at
\* its limit asks for two seconds, having nothing better to say.
CeilDiv(a, b) == (a + b - 1) \div b
RateWait(q, k) ==
    IF q.tokens < Minute THEN Greatest(1, CeilDiv(Minute - q.tokens, Rpm[k])) ELSE 0

RetryAfter(q, k) ==
    IF q.active >= Concurrency[k] THEN Greatest(RateWait(q, k), 2) ELSE RateWait(q, k)

-----------------------------------------------------------------------------
(* cleanup: once a minute, records without a live request that were not    *)
(* asked for in ten minutes are dropped.  The global one stays.            *)

\* Fault: a long request's record is dropped under it.
ExpiredLive(k) == k # Global /\ now - quota[k].seen >= Idle

\* Fault: a record is dropped as soon as its last request is over.
ExpiredAtOnce(k) == k # Global /\ quota[k].active = 0

Expired(k) == k # Global /\ quota[k].active = 0 /\ now - quota[k].seen >= Idle
Swept == IF now < nextCleanup THEN known ELSE {k \in known : ~Expired(k)}

Refreshed(k) == Refilled(IF k \in Swept THEN quota[k] ELSE NewQuota(k), k)
Wait(k) == RetryAfter(Refreshed(k), k)

\* Fault: off by one.
HasRoomForOneMore(k) ==
    \/ k \in Swept
    \/ k \in IP /\ Cardinality(Swept \cap IP) <= MaxIPs
    \/ k \in Host /\ Cardinality(Swept \cap Host) < MaxHosts

HasRoom(k) ==
    \/ k \in Swept
    \/ k \in IP /\ Cardinality(Swept \cap IP) < MaxIPs
    \/ k \in Host /\ Cardinality(Swept \cap Host) < MaxHosts

Taken(q) ==
    [tokens |-> q.tokens - Minute, last |-> q.last, seen |-> q.seen, active |-> q.active + 1]

\* Store the records of S after the sweep: only looked at, or charged.
Keep(S) ==
    /\ known' = Swept \cup S
    /\ nextCleanup' = IF now < nextCleanup THEN nextCleanup ELSE now + Minute
Touch(S) ==
    /\ Keep(S)
    /\ quota' = [k \in Key |-> IF k \in S THEN Refreshed(k)
                               ELSE IF k \in Swept THEN quota[k] ELSE Blank]
Charge(S) ==
    /\ Keep(S)
    /\ quota' = [k \in Key |-> IF k \in S THEN Taken(Refreshed(k))
                               ELSE IF k \in Swept THEN quota[k] ELSE Blank]

-----------------------------------------------------------------------------
(* The operations.                                                         *)

\* acquireRequest: the process and the address are charged together.  An
\* unknown address gets no record while the process is at its limit or the table
\* is full; a new record is never refused, its bucket being full.
AdmitRequest(a) ==
    /\ Wait(Global) = 0 /\ HasRoom(a) /\ Wait(a) = 0
    /\ Charge({Global, a})

\* Fault: the process is charged before the address is looked at.
RefuseCharged(a) ==
    /\ a \in Swept
    /\ Wait(Global) = 0 /\ Wait(a) > 0
    /\ Keep({Global, a})
    /\ quota' = [k \in Key |-> IF k = Global THEN [Refreshed(k) EXCEPT !.tokens = @ - Minute]
                               ELSE IF k = a THEN Refreshed(k)
                               ELSE IF k \in Swept THEN quota[k] ELSE Blank]

RefuseRequest(a) ==
    \/ /\ a \notin Swept
       /\ Wait(Global) > 0 \/ ~HasRoom(a)
       /\ Touch({Global})
    \/ /\ a \in Swept
       /\ Wait(Global) > 0 \/ Wait(a) > 0
       /\ Touch({Global, a})

\* acquireHost
AdmitHost(h) ==
    /\ HasRoom(h) /\ Wait(h) = 0
    /\ Charge({h})

RefuseHost(h) ==
    \/ ~HasRoom(h) /\ Touch({})
    \/ h \in Swept /\ Wait(h) > 0 /\ Touch({h})

\* The release closures; sync.Once makes a second call nothing.
Release(S) ==
    /\ quota' = [k \in Key |-> IF k \in S THEN [quota[k] EXCEPT !.active = @ - 1]
                               ELSE quota[k]]
    /\ UNCHANGED <<known, nextCleanup>>

=============================================================================
