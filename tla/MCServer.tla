------------------------------ MODULE MCServer ------------------------------
(* Instances of ClientAddress and Server for TLC, one after the other: a   *)
(* request on its way, whichever that is, and then the server at work.     *)
(* What the server does depends on a way by the key it ends with only, so  *)
(* one way is enough for it.                                               *)
EXTENDS ClientAddress, Server, TLC

CONSTANTS a1, a2, h1, h2, r1, r2, v1, v2, p1, p2, o1, six

\* Rates below, at and above the cap on bursts.
Rpms == (Global :> 3) @@ [k \in IP |-> 2] @@ [h \in Host |-> 1]
FewAtOnce == (Global :> 2) @@ [k \in IP |-> 1] @@ [h \in Host |-> 1]

\* One of the visitors and one of the proxies have IPv6 addresses.
Nets == (v1 :> v1) @@ (v2 :> six) @@ (p1 :> p1) @@ (p2 :> <<six, p2>>)

Symmetry == Permutations(IP) \cup Permutations(Request)

Straight == holder = v1 /\ header = <<>> /\ room = Room /\ way = 0 /\ key # <<>>

\* The window that the server's run will look at does not matter to the way: all ways are
\* taken before one of them.
MCInit == AddressInit /\ Init
MCNext ==
    \/ AddressNext /\ (from = 0 \/ Straight') /\ UNCHANGED vars
    \/ Straight /\ Next /\ UNCHANGED addressVars
MCSpec == MCInit /\ [][MCNext]_<<addressVars, vars>>

=============================================================================
