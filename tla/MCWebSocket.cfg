SPECIFICATION FairSpec
CONSTANTS
    handler = handler
    helper = helper
    reader = reader
    Tasks = {handler, helper, reader}
    Handler = handler
    Calls <- SharedCalls
    ClientKinds = {"data", "ping", "close"}
    Capacity = 1
    WireCapacity = 1
    MaxFrames = 2
    MaxSends = 2
INVARIANTS
    CloseIsLast
    DeliveredIsAcceptedPrefix
PROPERTIES
    ImplementsDuplex
    CallsEndWithConnection
    OutboundWaitsForBacklogOnly
    OutboundDrains
    VanishedPeerNoticed
CHECK_DEADLOCK FALSE
