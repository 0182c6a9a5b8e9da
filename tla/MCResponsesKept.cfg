SPECIFICATION Spec
CONSTANTS
    Handlers <- MCHandlers
    Results <- MCResults
INVARIANTS
    ResponsesKept
CHECK_DEADLOCK FALSE
