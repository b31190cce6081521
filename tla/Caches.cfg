\* Three calls of the cache share a computation two by two; three processes
\* take the lock one after another; a key lives for three ticks.
SPECIFICATION Spec
CONSTANTS
    Callers = {c1, c2, c3}
    Nobody = Nobody
    Holders = {p1, p2, p3}
    NoHolder = NoHolder
    LockTtl = 3
    Clients = {r1, r2, r3}
    Loads = {x1, x2}
    Listeners = {l1, l2}
    MaxChanges = 2
    LoadCalls = {d1, d2, d3}
    LoadKeys = {k1, k2}
    MaxCopies = 3
INVARIANTS
    TypeOK
    OverwrittenStaysGone
    SingleFlight
    OneInside
    StaleOnlyIfCrossed
    RefusedLast
PROPERTIES
    ReloadsGoForward
    CallersGoOn
