SPECIFICATION MCSpec
CONSTANTS
  Slot = {0, 1, 2, 3, 4, 5, 6}
  MaxSize = 4
  NoSlot = NoSlot
  BlockCapacity = 1
  InfoCapacity = 1
  MaxIdleTicks = 0
  CleanupSlots = 1
INVARIANT NoSlotSentTwice
INVARIANT CachedBlockCaughtUp
PROPERTY EmitsLikeAFeed
PROPERTY SilentStreamRestarts
CHECK_DEADLOCK FALSE
