SPECIFICATION Spec
CONSTANTS
    Handlers <- MCHandlers
    Results <- MCResults
INVARIANTS
    ConvertedAlike
    ErrorsExplained
CHECK_DEADLOCK FALSE
