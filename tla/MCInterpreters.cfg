SPECIFICATION Spec
CONSTANTS
    StackLimit = 3
    GasCosts <- MCGasCosts
    CallCost = 2
    BlockGasMax = 100
    BlockStackMax = 4
    Inputs <- MCInputs
    MaxCodeSize = 6
INVARIANTS
    SameOutcome
    UncheckedAccessesSafe
PROPERTY
    Terminates
CHECK_DEADLOCK FALSE
