SPECIFICATION Spec
CONSTANTS
    handler = handler
    session = session
    user = user
    config = config
    Funcs = {handler, session, user, config}
    Handler = handler
    Graphs <- MCGraphs
    MaxDepth = 6
INVARIANTS
    InjectionsRight
    SharedOnce
    FreshPerUse
    GivenToItsParameter
CHECK_DEADLOCK FALSE
