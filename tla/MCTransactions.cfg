SPECIFICATION MCSpec
CONSTANTS
  g = g
  b1 = b1
  b2 = b2
  s1 = s1
  i1 = i1
  i2 = i2
  Block = {g, b1, b2}
  Genesis = g
  Slot <- MCSlot
  Height <- MCHeight
  Sig = {s1}
  RecentBlockhash <- MCRecent
  Txs <- MCTxs
  MaxRecentBlockhashes = 1
  SubscribeLevel = {1}
  Feed <- MCFeed
  BlockTask = BlockTask
  InfoTask = InfoTask
  Submission = {i1, i2}
  SubmittedSig <- MCSubmittedSig
  MaxReplay <- MCMaxReplay
  QueueSize = 1
  RetryOffset = 1
INVARIANT NoValidBlockForgotten
INVARIANT LatestBlockhashKnown
 
PROPERTY NoReplayOnceConfirmed
