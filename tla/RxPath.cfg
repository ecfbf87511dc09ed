CONSTANTS
  Parts <- SomeParts
  FirstClen = 2
  N = 2
  PoolSize = 7
  WholeClen = 2
  MaxDatagrams = 3
  MaxPbufs = 5
SPECIFICATION FairSpec
INVARIANTS
  PbufsAccounted
  StackCanReceive
  WholeButForOneHole
  NothingCompleteWaits
  FramesInOrder
  WakeUpNotLost
PROPERTIES
  ReceptionResumes
CHECK_DEADLOCK FALSE
