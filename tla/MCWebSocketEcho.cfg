SPECIFICATION Spec
CONSTANTS
    handler = handler
    helper = helper
    reader = reader
    Tasks = {handler}
    Handler = handler
    Calls <- EchoCalls
    ClientKinds = {"data"}
    Capacity = 2
    WireCapacity = 1
    MaxFrames = 1
    MaxSends = 2
INVARIANTS
    CleanReturnDelivers
CHECK_DEADLOCK FALSE
