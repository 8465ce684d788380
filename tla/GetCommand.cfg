CONSTANTS
    d1 = d1
    d2 = d2
    get = get
    NoOne = NoOne
    Types <- EventTypes
    Publishers = {d1, d2}
    Publishes <- AllPublish
    Subscribers = {get}
    Wants <- GetWants
    Quitters = {get}
    Cap = 2
    MaxEvents <- Events
SPECIFICATION GetSpec
INVARIANTS GetTypeOK NoSendOnClosed WaitsForCause
PROPERTIES PublishReturns InterruptEnds OutcomeEnds
CHECK_DEADLOCK FALSE
