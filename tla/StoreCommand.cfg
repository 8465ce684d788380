CONSTANTS
    Size = 3
    Peers = {p1, p2, p3}
    Factors = {0, 2}
    Streams = {s1}
    Processes = {q1}
    Self = Self
SPECIFICATION Spec
SYMMETRY PeerSymmetry
INVARIANTS TypeOK ReplicasBounded ErrorMeansNone StoredUnlessCut
CHECK_DEADLOCK FALSE
