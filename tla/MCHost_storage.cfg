SPECIFICATION TouchSpec
CONSTANTS
  eoa = eoa
  contract = contract
  fresh = fresh
  ripemd = ripemd
  code1 = code1
  key1 = key1
  NoCode = NoCode
  Addr <- MCAddr
  Key = {key1}
  Val = {0, 1}
  Code = {code1}
  Rev = 12
  Precompiles = {ripemd}
  RIPEMD = ripemd
  Coinbase = fresh
  CreateAddress <- MCCreateAddress
  Create2Address <- MCCreate2Address
  Transactions <- MCTransactionsPlain
  InitialViews <- MCViewsPlain
  Values = {0}
  Ops = {"SLOAD", "SSTORE", "TSTORE", "LOG", "STATICCALL", "DELEGATECALL", "CALLCODE"}
  GasLimit = 1
  BaseFee = 1
  PriorityFee = 1
  MaxNonce = 3
  MaxDepth = 1
  MaxJournal = 5
  MaxLogs = 1
  MaxTxs = 1
PROPERTIES
  ReadsAreKept
  ImplementsNestedCalls
