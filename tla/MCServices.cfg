SPECIFICATION MCSpec
CONSTANTS
  g = g
  b1 = b1
  x = x
  i1 = i1
  i2 = i2
  Block = {g, b1}
  Genesis = g
  Slot <- MCHeight
  Height <- MCHeight
  Sig = {x}
  RecentBlockhash <- MCRecent
  Txs <- MCTxs
  MaxRecentBlockhashes = 1
  SubscribeLevel = {}
  Feed <- MCFeed
  BlockTask = BlockTask
  InfoTask = InfoTask
  Submission = {i1, i2}
  SubmittedSig <- MCSubmittedSig
  MaxReplay <- MCMaxReplay
  QueueSize = 1
  RetryOffset = 1
  FeeSlot = {1, 2, 3}
  SlotsToRetain = 2
  Step = 25
  BlockContent <- MCBlockContent
  Addresses <- MCAddresses
  SizeMod = 2
  MaxLoads = 2
  Source = {s1, s2}
  MaxFilters = 3
  None = None
  MaxSlot = 2
  Worker = {w1, w2}
  MaxAhead = 2
  MaxAge = 1
  SlotChannel = 2
  Geyser = {g1, g2}
  Fanout = 1
  Behind = 1
  LeadersToCache = 5
  ClusterNodes <- MCClusterNodes
  OldLeaders = 1
PROPERTY PollsLikeAFeed
INVARIANT LastNStats
INVARIANT LookupsResolved
PROPERTY SlotsOnlyGrow
 
PROPERTY EveryBlockFinalized
PROPERTY StreamRecovers
 
PROPERTY EverySubmissionSettles
CHECK_DEADLOCK FALSE
