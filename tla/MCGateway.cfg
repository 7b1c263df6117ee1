SPECIFICATION WireSpec
CONSTANTS
  Address <- MCAddress
  AddressSize = 2
  ZERO_ETH_ADDRESS <- MCZero
  U32 = 3
  U64 = 9
  U128 = 8
  RPC_MAX_GAS_LIMIT = 6
  TX_GAS = 1
  TX_GAS_CONTRACT_CREATION = 2
  TX_DATA_ZERO_GAS = 1
  TX_DATA_NONE_ZERO_GAS = 2
  MAX_TRANSACTION_SIZE = 4
  GW_L2TX_ARGS_MAX_SIZE = 4
  GW_USER_LOG_DATA_MAX_SIZE = 2
  HandleOp = 9
  entrypoint <- MCEntrypoint
  web3ChainId = 5
  Draft <- MCDraft
  Foreign <- MCForeign
  Receipt <- MCReceipt
  World <- MCWorld
  Stranger <- MCStranger
  Class <- MCClass
  Shape = {0, 1, 2}
  Damage <- MCDamage
  Log <- MCLog
  Filter <- MCFilter
  PollId <- MCPollId
  Heads <- MCHeads
  Batch <- MCBatch
  LogQuery <- MCLogQuery
  MaxHeads = 4
  MaxLists = 2
  SubscriptionId <- MCSubscriptionId
  EthNewHead <- MCEthNewHead
  PRECISION = 2
  GAS_PRICE_DIVIDER = 12
  MIN_GAS_PRICE_LOWER_LIMIT = 2
  MIN_GAS_PRICE_UPPER_LIMIT = 5
  CACHE_EXPIRED_TIME = 3630000
  PRICE_UPDATE_WINDOW = 3600000
  ThresholdPercent = 5
  BLOCK_CONGESTION_GAS_USED = 5
  GasPriceCached = TRUE
  Quote <- MCQuote
  WildQuote = {1, 9000}
  Ttl <- MCTtl
  MedianGasPrice = {0, 3, 9}
  GasUsed = {4, 5}
INVARIANTS
  MoleculeRoundTrips MoleculeCanonical
  IndexedAsSigned PendingAsIndexed SimulatedAsSent
  FiltersAgree SubscriptionsExact PriceSound
\* A transaction ends, a connection is closed.
CHECK_DEADLOCK FALSE
