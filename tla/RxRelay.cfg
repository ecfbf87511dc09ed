CONSTANTS
  MaxPackets = 7
  MaxResets = 2
SPECIFICATION FairSpec
INVARIANTS
  InOrderOnce
  NothingHeardIsLost
  NeverReadsEmpty
PROPERTIES
  InterruptServed
