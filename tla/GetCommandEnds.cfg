CONSTANTS
    d1 = d1
    d2 = d2
    get = get
    NoOne = NoOne
    Types <- EventTypes
    Publishers = {d1, d2}
    Publishes <- AllPublish
    Subscribers = {get}
    Wants <- GetWants
    Quitters = {get}
    Cap = 10
    MaxEvents <- Events
SPECIFICATION GetSpec

PROPERTY CommandEnds
CHECK_DEADLOCK FALSE
