SPECIFICATION TouchSpec
CONSTANTS
  eoa = eoa
  contract = contract
  fresh = fresh
  ripemd = ripemd
  code1 = code1
  key1 = key1
  NoCode = NoCode
  Addr <- MCAddr
  Key = {key1}
  Val = {0, 1}
  Code = {code1}
  Rev = 14
  Precompiles = {ripemd}
  RIPEMD = ripemd
  Coinbase = fresh
  CreateAddress <- MCCreateAddress
  Create2Address <- MCCreate2Address
  Transactions <- MCTransactionsPlain
  InitialViews <- MCViews
  Values = {0, 1}
  Ops = {"BALANCE", "CALL", "CREATE", "SELFDESTRUCT"}
  GasLimit = 1
  BaseFee = 1
  PriorityFee = 1
  MaxNonce = 3
  MaxDepth = 2
  MaxJournal = 7
  MaxLogs = 1
  MaxTxs = 1
INVARIANTS
  SupplyConserved
PROPERTIES
  SupplySettled
