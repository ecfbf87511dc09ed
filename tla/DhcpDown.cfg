CONSTANTS
  Addrs = {a1}
  MaxReplies = 2
SPECIFICATION FairSpec
INVARIANTS
  ConfiguredIsUp
CHECK_DEADLOCK FALSE
