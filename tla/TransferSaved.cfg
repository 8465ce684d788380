CONSTANTS
    H1 = H1
    H2 = H2
    R = R
    a = a
    b = b
    c = c
    NoSession = NoSession
    TheSession = TheSession
    NoTransfer = NoTransfer
    Size = 3
    Nodes = {H1, H2, R}
    Transfers = {a, b}
    From <- TwoFrom
    To <- TwoTo
    Session <- TwoSession
    Answers = {a, b}
    Holders = {H1, H2}
    Getters = {R}
    Receivers = {}
    Faults = {}
SPECIFICATION Spec
INVARIANT SavedIsWhole
CHECK_DEADLOCK FALSE
