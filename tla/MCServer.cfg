\* Two visitors behind two proxies and a machine whose address cannot be read; two identities
\* and two hosts, room for one record of each.
CONSTANTS
    a1 = a1  a2 = a2  h1 = h1  h2 = h2  r1 = r1  r2 = r2
    v1 = v1  v2 = v2  p1 = p1  p2 = p2  o1 = o1  six = six
    Address = {v1, v2, p1, p2}
    Odd = {o1}
    Trusted = {p1, p2}
    Net <- Nets
    Unknown = Unknown
    MaxParts = 3
    Room = 3
    MaxForged = 2
    MaxWay = 3
    IP = {a1, a2}
    Host = {h1, h2}
    Global = Global
    NoIP = NoIP
    Request = {r1, r2}
    Rpm <- Rpms
    Concurrency <- FewAtOnce
    MaxIPs = 1
    MaxHosts = 1
    BurstCap = 2
    Minute = 3
    Idle = 3
    MaxTime = 5
SPECIFICATION MCSpec
SYMMETRY Symmetry
CHECK_DEADLOCK FALSE
INVARIANTS ChargedToSource CountsAgree Bounded RateKept WaitExact
PROPERTIES ImplementsMeter
