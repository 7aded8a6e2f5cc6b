SPECIFICATION Spec
CONSTANTS
  eoa = eoa
  contract = contract
  fresh = fresh
  coinbase = coinbase
  code1 = code1
  designation = designation
  key1 = key1
  NoCode = NoCode
  NoAddr = NoAddr
  NoReward = NoReward
  Addr <- MCAddr
  Key = {key1}
  Val = {0, 1}
  Code = {code1, designation}
  Rev = 14
  Precompiles = {}
  Coinbase = coinbase
  BaseFee = 1
  BlobBaseFee = 1
  GAS_PER_BLOB = 1
  MAX_TX_BLOB_COUNT = 1
  MAX_TX_GAS_LIMIT = 3
  MAX_TX_TOTAL_GAS_LIMIT = 6
  MAX_NONCE = 3
  Delegate <- MCDelegate
  CreateAddress <- MCCreateAddress
  Outcomes <- MCOutcomes
  GasResults <- MCGasResults
  BlockGasLimit = 7
  BlobGasLimit = 1
  STORAGE_SYSTEM_CONTRACTS <- MCStorageContracts
  REQUESTS_SYSTEM_CONTRACTS <- MCRequestsContracts
  SystemOutcomes <- MCSystemOutcomes
  Transactions <- MCTransactions
  Finalizations <- MCFinalizations
  InitialViews <- MCInitialViews
  MaxTxs = 2
INVARIANTS
  BalReplays
  BalMinimal
  BlockGasWithinLimits
  SupplyAccounted
PROPERTIES
  AuthorizationsReverted
