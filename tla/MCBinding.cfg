SPECIFICATION BindingSpec
CONSTANTS
    Names <- MCNames
    Dashed <- MCDashed
    Declarations <- MCDeclarations
    Configs <- MCConfigs
    Requests <- MCRequests
    NoLimit = NoLimit
INVARIANTS
    ArgumentsAreRight
    RefusalExplained
    LimitsHold
