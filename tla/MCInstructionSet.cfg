SPECIFICATION Spec
CONSTANTS
    WordValues = 64
    SizeValues = 32
    BufferLimit = 15
    ByteValues = 8
    WordBytes = 2
    DataGas = 50
    ColdAccountCost = 26
    Inputs <- MCInputs
    DataOffsets = {0, 1, 3, 33, 63}
    DataSizes = {0, 1, 3, 16, 33}
    MaxInstrs = 2
    CostRevisions <- MCCostRevisions
    Words = {0, 1, 2}
    TxGas = 60000
    CallGas = {2300, 12000, 24000}
    StateGasUnits = 1
    MaxStores = 4
    MaxCalls = 2
\* Accesses around the growth of the quadratic cost (at 23 words), the square
\* of the words wrapping around (at 64), the page end and the largest buffer.
    MaxBufferSize = 8191
    Wrap = 4096
    Offsets = {0, 690, 2016, 4080, 8192}
    Sizes = {0, 1, 64, 2016, 8191, 8192}
    GasLimits = {200, 1500}
INVARIANTS
    SstoreNetCost
    TypeOK
    CostIsExact
    InBounds
    FreshIsZero
PROPERTY
    DataMovesExact
CHECK_DEADLOCK FALSE
