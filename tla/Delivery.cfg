CONSTANTS
    Calls <- AllCalls
    Works = {"direct", "relay", "circuit", "punch"}
SPECIFICATION FairDeliverySpec
INVARIANTS DeliveryTypeOK CircuitPunched
PROPERTY DeliveryEnds
CHECK_DEADLOCK FALSE
