CONSTANTS
  N = 3
  MaxFrames = 7
  Senders = {"main"}
SPECIFICATION FairSpec
INVARIANTS
  WireInOrderIntact
  RingCoherent
  WakeUpNotLost
PROPERTIES
  SentUnlessFull
  RingDrains
CHECK_DEADLOCK FALSE
