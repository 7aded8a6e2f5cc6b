SPECIFICATION Spec
CONSTANTS
    Setups <- MCExecutions
    MaxTracers = 1
INVARIANTS
    StatesIsolated
    TxContextCurrent
    TracersFollow
    DepthBoundedByGas
CHECK_DEADLOCK FALSE
