SPECIFICATION ListenSpec
CONSTANTS
  a = a
  b = b
  c = c
  Sig = {a, b, c}
  Fee <- MCFee
  Lvbh <- MCLvbh
  MaxTxs = 2
  Heights = {0, 1, 2}
  ChannelSize = 2
  Permits = 1
  NoTx = NoTx
  MaxHeight = 1
  MaxSends = 1
  Task = {t1, t2}
  StableId = {c1, c2, c3}
  NoConn = NoConn
PROPERTY ExitEndsListener
