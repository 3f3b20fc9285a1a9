CONSTANTS
  StakeKey = {s1}
  VoteKey = {v1}
  Request = {r1, r2}
  SlotsInEpoch = 2
  StartEpoch = 1
  MaxSlot = 4
  MaxUpdates = 1
  FilesAtStart <- MCFiles
  RpcAnswers = {TRUE}
  None = None
SPECIFICATION Spec
 
INVARIANT SchedulesInOrder
PROPERTY EveryRequestAnswered
PROPERTY EveryScheduleEnds
CHECK_DEADLOCK FALSE
