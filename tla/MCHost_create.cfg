SPECIFICATION TouchSpec
CONSTANTS
  eoa = eoa
  contract = contract
  fresh = fresh
  ripemd = ripemd
  code1 = code1
  key1 = key1
  NoCode = NoCode
  Addr <- MCAddr
  Key = {key1}
  Val = {0, 1}
  Code = {code1}
  Rev = 8
  Precompiles = {ripemd}
  RIPEMD = ripemd
  Coinbase = fresh
  CreateAddress <- MCCreateAddress
  Create2Address <- MCCreate2Address
  Transactions <- MCTransactions
  InitialViews <- MCViews
  Values = {0, 1}
  Ops = {"CALL", "CREATE", "SELFDESTRUCT"}
  GasLimit = 1
  BaseFee = 1
  PriorityFee = 1
  MaxNonce = 3
  MaxDepth = 2
  MaxJournal = 8
  MaxLogs = 1
  MaxTxs = 1
INVARIANTS
  StateAssertions
  HostAssertions
  CodeCacheCoherent
  RipemdTouchIsKept
PROPERTIES
  DiffIsExact
  ImplementsNestedCalls
