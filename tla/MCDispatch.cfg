SPECIFICATION Spec
CONSTANTS
    Literals <- MCLiterals
    Methods = {"GET", "POST", "HEAD", "TRACE"}
    Known = {"GET", "POST", "HEAD"}
    Declarations <- MCDeclarations
    Builtins <- MCBuiltins
    Roots <- MCRoots
    Requested <- MCRequested
    MaxRoutes = 2
INVARIANTS
    AnswersOwnRoute
    StaticBeatsParams
    ArgumentsFromPath
    OrderIrrelevant
    UnservedExplained
CHECK_DEADLOCK FALSE
