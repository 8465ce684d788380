CONSTANTS
    R = R
    A = A
    B = B
    C = C
    D = D
    E = E
    F = F
    Nodes = {R, A, B, C, D, E}
    Requester = R
    Holders = {E}
    Peers <- DetourPeers
    Dist <- DetourDist
    DefaultTTL = 3
    Fanout = 10
    MaxFaults = 0
SPECIFICATION FairSpec
PROPERTIES HoldersInReachServe
CHECK_DEADLOCK FALSE
