SPECIFICATION Spec
CONSTANTS
  slot1 = slot1
  slot2 = slot2
  addr1 = addr1
  addr2 = addr2
  Slot = {slot1, slot2}
  Original <- MCOriginal
  Target = {addr1, addr2}
  Existing = {addr2}
  STORAGE_SET_STATE_GAS = 2
  NEW_ACCOUNT_STATE_GAS = 3
  AUTHORIZATION_STATE_GAS = 1
  ACCOUNT_WRITE = 1
  CALL_VALUE_COST = 2
  CALL_STIPEND = 1
  GasFraction = 4
  GasLimits <- MCGasLimits
  Costs = {1}
  CallGas = {0, 3, 9}
  CodeSizes = {0, 2}
  MaxFrames = 4
  MaxDeposit = 1
INVARIANTS
  TypeOK
  PoolsExclusive
  GasNeverMinted
  FramesPayGrowth
  StateGasPaysGrowth
