---------------------------- MODULE ClientAddress ----------------------------
(***************************************************************************)
(* Whose quota a request is charged to: clientIP of                        *)
(* src/internal/server/proxy.go, at the end of the way a request takes     *)
(* from its visitor over any number of proxies to the server.              *)
(*                                                                         *)
(* The header X-Forwarded-For is the sequence of the texts between its     *)
(* commas, all its fields joined.  A proxy the server trusts appends the   *)
(* address it was connected from; anybody else may send any header.        *)
(***************************************************************************)
EXTENDS Integers, Sequences

CONSTANTS
    Address,    \* addresses, those of IPv4 mapped into IPv6 unmapped
    Odd,        \* what is not read as one: with a zone, or no address at all
    Trusted,    \* addresses in TRUSTED_PROXIES
    Net,        \* Net[a]: a, or the /64 of a when it is an IPv6 address
    Unknown,    \* "unknown"
    MaxParts,   \* most parts of a header that is read (32)
    Room,       \* how many addresses have room in a header that is read (2048 bytes)
    MaxForged,  \* bound on the parts of a header that is made up
    MaxWay      \* bound on how often a request is sent on

ASSUME AddressAssumption ==
    /\ Odd \cap Address = {} /\ Trusted \subseteq Address
    /\ MaxParts \in Nat /\ Room \in Nat /\ MaxForged \in Nat /\ MaxWay \in Nat

VARIABLES
    holder,     \* the machine that has the request
    header,     \* X-Forwarded-For as it leaves that machine
    room,       \* for how many addresses there is room left, below 0 for none
    way,        \* how often the request was sent on
    source,     \* history: the last machine that had it and is not trusted
    key         \* the identity it is charged to at the server, <<>> before

addressVars == <<holder, header, room, way, source, key>>

Machine == Address \cup Odd
Identity == {Net[a] : a \in Address} \cup {Unknown}

AddressTypeOK ==
    /\ holder \in Machine /\ source \in Machine
    /\ header \in Seq(Machine) /\ room \in Int
    /\ way \in 0 .. MaxWay
    /\ key \in {<<>>} \cup {<<i>> : i \in Identity}

-----------------------------------------------------------------------------
(* clientIP.                                                               *)

\* Fault: the header is read from its beginning.
HopForwards(parts, client, i) == IF client \in Trusted THEN parts[i] ELSE client

\* Only a trusted client vouches for the one before it: step i from the right.
Hop(parts, client, i) == IF client \in Trusted THEN parts[Len(parts) + 1 - i] ELSE client
Vouched(parts, peer) ==
    LET client[i \in 0 .. Len(parts)] ==
            IF i = 0 THEN peer ELSE Hop(parts, client[i - 1], i)
    IN  client[Len(parts)]

\* A header that is too long or has a part that is no address says nothing.
Legible(parts, left) ==
    /\ left >= 0 /\ Len(parts) <= MaxParts
    /\ \A i \in DOMAIN parts : parts[i] \in Address

ClientIP(peer, parts, left) ==
    IF peer \in Odd THEN Unknown
    ELSE Net[IF peer \in Trusted /\ Legible(parts, left) THEN Vouched(parts, peer) ELSE peer]

-----------------------------------------------------------------------------
(* The way of a request.                                                   *)

AddressInit ==
    /\ holder \in Machine /\ source = holder
    /\ IF holder \in Trusted THEN header = <<>> /\ room = Room
       ELSE \E n \in 0 .. MaxForged : header \in [1 .. n -> Machine] /\ room \in -1 .. Room - n
    /\ way = 0 /\ key = <<>>

\* A trusted proxy appends the address of the machine that sent it the request.
Pass(proxy) ==
    /\ key = <<>> /\ way < MaxWay
    /\ way' = way + 1
    /\ holder' = proxy
    /\ header' = Append(header, holder) /\ room' = room - 1
    /\ UNCHANGED <<source, key>>

\* Another one does what it likes.
Detour(other) ==
    /\ key = <<>> /\ way < MaxWay
    /\ way' = way + 1
    /\ holder' = other /\ source' = other
    /\ \E n \in 0 .. MaxForged : header' \in [1 .. n -> Machine] /\ room' \in -1 .. Room - n
    /\ UNCHANGED key

\* middleware: the server charges the request before it reads it.
Enter ==
    /\ key = <<>>
    /\ key' = <<ClientIP(holder, header, room)>>
    /\ UNCHANGED <<holder, header, room, way, source>>

AddressNext ==
    \/ \E proxy \in Trusted : Pass(proxy)
    \/ \E other \in Machine \ Trusted : Detour(other)
    \/ Enter

AddressSpec == AddressInit /\ [][AddressNext]_addressVars

-----------------------------------------------------------------------------
(* Safety.                                                                 *)

\* Whatever a visitor or a proxy that is not trusted wrote into the header: the request is
\* charged to the last of them that had it, or to the first machine when all are trusted
\* ("ignoring forged prefixes", proxy.go:55).  Only a header that cannot be read, which one
\* of them made so or which went over too many proxies, is charged to the proxy that
\* connected.
ChargedToSource ==
    key # <<>> =>
        \/ holder \in Odd /\ key = <<Unknown>>
        \/ source \in Address /\ key = <<Net[source]>>
        \/ /\ (\E i \in DOMAIN header : header[i] \in Odd) \/ Len(header) > MaxParts \/ room < 0
           /\ holder \in Trusted /\ key = <<Net[holder]>>

=============================================================================
