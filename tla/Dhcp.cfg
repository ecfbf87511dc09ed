CONSTANTS
  Addrs = {a1, a2}
  MaxReplies = 6
SPECIFICATION FairSpec
INVARIANTS
  RetryTimerArmed
  LeaseIsGood
  LeasedIsUp
PROPERTIES
  AddressUnlessStalled
CHECK_DEADLOCK FALSE
