------------------------------- MODULE Server -------------------------------
(***************************************************************************)
(* POST requests through the relay server: middleware and relay of         *)
(* src/internal/server/server.go over the limiter.  Requests are handled   *)
(* concurrently; each takes a slot for its visitor before its body is read *)
(* and one for the upstream host before it is forwarded, and gives them    *)
(* back in the reverse order, by defer, whatever ends it.                  *)
(***************************************************************************)
EXTENDS Limiter

CONSTANTS
    Request,    \* connections a request may come in on
    NoIP,       \* no address, no host
    MaxTime     \* bound on the clock

ASSUME ServerAssumption ==
    /\ IsFiniteSet(Request)
    /\ NoIP \notin Key
    /\ MaxTime \in Nat

VARIABLES
    pc,         \* where the handler of each request is
    ip,         \* the visitor it was admitted for
    host,       \* the host it is forwarded to
    from,       \* history: the start of a window, any time
    taken       \* history: admissions of each identity in that window

handlers == <<pc, ip, host>>
vars == <<limiter, now, handlers, from, taken>>

TypeOK ==
    /\ LimiterTypeOK
    /\ pc \in [Request -> {"off", "admitted", "relaying", "leaving"}]
    /\ ip \in [Request -> IP \cup {NoIP}]
    /\ host \in [Request -> Host \cup {NoIP}]
    /\ from \in Nat
    /\ taken \in [Key -> Nat]

Init ==
    /\ LimiterInit
    /\ pc = [r \in Request |-> "off"]
    /\ ip = [r \in Request |-> NoIP]
    /\ host = [r \in Request |-> NoIP]
    /\ from \in 0 .. MaxTime
    /\ taken = [k \in Key |-> 0]

Counted(S) == taken' = [k \in Key |-> IF k \in S /\ now >= from THEN taken[k] + 1 ELSE taken[k]]

\* middleware: the limiter comes before anything else of a POST to /api/.
Arrive(r, a) ==
    /\ pc[r] = "off"
    /\ AdmitRequest(a) /\ Counted({Global, a})
    /\ pc' = [pc EXCEPT ![r] = "admitted"]
    /\ ip' = [ip EXCEPT ![r] = a]
    /\ UNCHANGED <<now, host, from>>

Refuse(a) ==
    /\ RefuseRequest(a)
    /\ UNCHANGED <<now, handlers, from, taken>>

\* relay: the body is valid and the host allowed.
Forward(r, h) ==
    /\ pc[r] = "admitted"
    /\ AdmitHost(h) /\ Counted({h})
    /\ pc' = [pc EXCEPT ![r] = "relaying"]
    /\ host' = [host EXCEPT ![r] = h]
    /\ UNCHANGED <<now, ip, from>>

RefuseForward(r, h) ==
    /\ pc[r] = "admitted"
    /\ RefuseHost(h)
    /\ pc' = [pc EXCEPT ![r] = "leaving"]
    /\ UNCHANGED <<now, ip, host, from, taken>>

\* The answer, an error, a timeout or a visitor who went away.
LeaveHost(r) ==
    /\ pc[r] = "relaying"
    /\ Release({host[r]})
    /\ pc' = [pc EXCEPT ![r] = "leaving"]
    /\ host' = [host EXCEPT ![r] = NoIP]
    /\ UNCHANGED <<now, ip, from, taken>>

\* The handler returns, at once when the request is rejected before it is relayed.
Return(r) ==
    /\ pc[r] \in {"admitted", "leaving"}
    /\ Release({Global, ip[r]})
    /\ pc' = [pc EXCEPT ![r] = "off"]
    /\ ip' = [ip EXCEPT ![r] = NoIP]
    /\ UNCHANGED <<now, host, from, taken>>

Tick ==
    /\ now < MaxTime
    /\ now' = now + 1
    /\ UNCHANGED <<limiter, handlers, from, taken>>

Next ==
    \/ \E r \in Request : LeaveHost(r) \/ Return(r)
    \/ \E r \in Request, a \in IP : Arrive(r, a)
    \/ \E r \in Request, h \in Host : Forward(r, h) \/ RefuseForward(r, h)
    \/ \E a \in IP : Refuse(a)
    \/ Tick

Spec == Init /\ [][Next]_vars

-----------------------------------------------------------------------------
(* Safety.                                                                 *)

Holders(k) ==
    {r \in Request : \/ pc[r] # "off" /\ (k = Global \/ ip[r] = k)
                     \/ pc[r] = "relaying" /\ host[r] = k}

\* Whatever the order in which requests come, are refused and end, each live
\* count is the number of requests that hold a slot, and a record is not dropped
\* while one does: no slot leaks, none is given back twice.
CountsAgree ==
    \A k \in Key : /\ quota[k].active = Cardinality(Holders(k))
                   /\ Holders(k) # {} => k \in known

\* What CountsAgree and the rest of this module rest on (ServerProofs): records are
\* no fuller than their burst nor newer than the clock, and a handler has an
\* address exactly while it is at work, a host exactly while it relays.
RecordsFit ==
    \A k \in Key :
        IF k \in known
        THEN /\ quota[k].tokens <= Burst(k)
             /\ quota[k].last = quota[k].seen /\ quota[k].last <= now
        ELSE quota[k] = Blank
HandlersFit ==
    \A r \in Request : /\ pc[r] = "off" <=> ip[r] = NoIP
                       /\ pc[r] = "relaying" <=> host[r] # NoIP
IInv == TypeOK /\ RecordsFit /\ HandlersFit /\ CountsAgree

\* Requests under way, and the records kept, stay within their limits.
Bounded ==
    /\ \A k \in Key : Cardinality(Holders(k)) <= Concurrency[k]
    /\ Cardinality(known \cap IP) <= MaxIPs
    /\ Cardinality(known \cap Host) <= MaxHosts

\* What a bucket lacks now, whether or not its record is up to date.
Debt(k) ==
    IF k \in known
    THEN Greatest(0, Burst(k) - (quota[k].tokens + (now - quota[k].last) * Rpm[k]))
    ELSE 0

\* In no window of time does an identity get more than its burst and its rate,
\* even if its record was dropped and made anew in between: "reconnecting cannot
\* reset a quota" (limits.go:56).
RateKept ==
    now >= from =>
        \A k \in Key : taken[k] * Minute <= Burst(k) + (now - from) * Rpm[k]

\* Retry-After is the first second at which the bucket has a token again.
WaitExact ==
    \A k \in known :
        LET q == Refreshed(k)
            w == RateWait(q, k)
            after(d) == Least(Burst(k), q.tokens + d * Rpm[k])
        IN  after(w) >= Minute /\ (w > 0 => after(w - 1) < Minute)

-----------------------------------------------------------------------------
(* Refinement.                                                             *)

Bundles == {{Global, a} : a \in IP} \cup {{h} : h \in Host}

Meter == INSTANCE RateMeter WITH
    Bundle <- Bundles, Rate <- Rpm, Capacity <- [k \in Key |-> Burst(k)],
    Token <- Minute, Limit <- Concurrency,
    debt <- [k \in Key |-> Debt(k)],
    live <- [k \in Key |-> quota[k].active]

\* Forgetting, refusing and creating records are invisible: the limiter behaves
\* as one that remembers everybody for ever.
ImplementsMeter == Meter!Spec

=============================================================================
