CONSTANTS
    H1 = H1
    H2 = H2
    R = R
    a = a
    b = b
    c = c
    NoSession = NoSession
    TheSession = TheSession
    NoTransfer = NoTransfer
    Size = 3
    Nodes = {H1, H2, R}
    Transfers = {a, b, c}
    From <- ThreeFrom
    To <- ThreeTo
    Session <- ThreeSession
    Answers = {a}
    Holders = {H1, H2}
    Getters = {R}
    Receivers = {H2}
    Faults = {"deadline", "connection", "disk", "crash", "interrupt"}
SPECIFICATION Spec
INVARIANTS TypeOK LastCreatorWins SuccessMeansRead
CHECK_DEADLOCK FALSE
