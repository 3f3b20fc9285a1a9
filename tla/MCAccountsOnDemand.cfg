CONSTANTS
  o1 = o1
  Account = {a1}
  Owner <- MCOwner
  StreamTask = {}
  Populate = pop
  Reader = {r1, r2}
  None = None
  Version <- MCVersion
  BlockSlot <- MCBlockSlot
  RetryFetching = 2
  ReadLevel = {"processed", "confirmed"}
SPECIFICATION FairSpec
INVARIANT WokenReaderFinds
PROPERTY LoadsLikeSingleFlight
PROPERTY EveryReadReturns
