SPECIFICATION MCSpec
CONSTANTS
  a = a
  b = b
  c = c
  Sig = {a, b, c}
  Fee <- MCFee
  Lvbh <- MCLvbh
  MaxTxs = 2
  Heights = {0, 1, 2}
  ChannelSize = 1
  Permits = 1
  NoTx = NoTx
  MaxHeight = 1
  MaxSends = 3
  Task = {t1, t2}
  StableId = {c1, c2, c3}
  NoConn = NoConn
INVARIANT MatchesReference
INVARIANT NoLostWakeup
PROPERTY HeapDrains
PROPERTY ShutdownCompletes
PROPERTY ReplacedOnlyIfReported
PROPERTY SendEnds
PROPERTY DeadConnectionReplaced
