SPECIFICATION BlockStoreSpec
CONSTANTS
  SlotsInEpoch = 2
  Transactions <- MCTransactions
  PARALLEL_WRITE_SESSIONS = 2
  MIN_WRITE_CHUNK_SIZE = 2
  Debounce = 1
  MaxSlot = 3
  MaxFaults = 1
  Null = Null
  Signature = {t1, t2, t3, t4}
  MaxMessage = 2
  TX_MAX_CAPACITY = 2
  MaxErrors = 2
  o1 = o1
  o2 = o2
  Account = {a1}
  Owner = {o1, o2}
  StreamTask = {s1}
  Populate = pop
  Reader = {}
  None = None
  Version <- MCVersion
  BlockSlot = {1, 2}
  x1 = x1
  x2 = x2
  x3 = x3
  x4 = x4
  a = a
  b = b
  Tx = {x1, x2}
  TpuNodes <- MCTpuNodes
  TxsPerUnistream = 2
  CHUNK_SIZE_PER_STREAM = 1
  TxChannel = 2
  MAX_RETRY_ATTEMPTS = 1
  Tpu = {a, b}
  Hash <- MCHash
  PARALLEL_TPU_CONNECTION_COUNT = 2
  ForwardChannel = 2
  Broadcast = 3
  MaxAgents <- MCMaxAgents
  MaxPackets = 3
PROPERTY SessionReplaced
CHECK_DEADLOCK FALSE
