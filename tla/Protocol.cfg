CONSTANTS
    p = p
    q = q
    r1 = r1
    r2 = r2
    r3 = r3
    Clients = {p, q}
    Requests = {r1, r2, r3}
    Of <- OfPeers
    OneWay = {r2}
    Limit = 1
    Window = 1
    TTL = 1
    MaxTime = 3
    Concurrency = 2
SPECIFICATION FairSpec
INVARIANTS TypeOK SlotsHeld LetThrough RateBound
PROPERTIES RefusedForCause OverloadClears
CHECK_DEADLOCK FALSE
