CONSTANTS
    p = p
    q = q
    c1 = c1
    c2 = c2
    c3 = c3
    Free = Free
    Peers = {p, q}
    Conns = {c1, c2, c3}
    Remote <- RemoteOf
    Cap = 1
    MaxCalls = 1
SPECIFICATION FairSpec
INVARIANTS TypeOK Listed NoGhost
PROPERTIES Implements EventsHandled
CHECK_DEADLOCK FALSE
