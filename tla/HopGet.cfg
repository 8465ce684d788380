CONSTANTS
    R = R
    A = A
    B = B
    C = C
    D = D
    E = E
    F = F
    Nodes = {R, A, B, C, D, E, F}
    Requester = R
    Holders = {A, E}
    Peers <- RingPeers
    Dist <- RingDist
    DefaultTTL = 2
    Fanout = 10
    MaxFaults = 2
SPECIFICATION FairSpec
INVARIANTS ReachBound AtMostOnce Provenance
PROPERTY NeighbourServes
CHECK_DEADLOCK FALSE
