CONSTANTS
  N = 4
  MaxFrames = 3
  Senders = {"main", "isr"}
SPECIFICATION FairSpec
PROPERTIES
  SentWhenOk
CHECK_DEADLOCK FALSE
